---------------------------- MODULE Spec2Model ----------------------------
(***************************************************************************)
(* Statistics store of the keyboard monitor (src/src/data_store.py):       *)
(* the in-memory document, its update operations, and the save / backup /  *)
(* load / restore protocol on the file system; and the save scheduler      *)
(* (src/src/save_manager.py) that decides when the store is saved.         *)
(*                                                                         *)
(* Python objects are modelled with their identity where the code shares   *)
(* them: the three nested dictionaries of the document live in `heap`,     *)
(* and a top-level dictionary is a record of references into it.           *)
(***************************************************************************)
EXTENDS Integers, Sequences, FiniteSets, TLC

VARIABLES
    heap,       \* object id -> nested dictionary (or Free)
    data,       \* DataStore.data: the top-level dictionary (three references)
    snap,       \* the dictionary a reader got from get_statistics (or NoSnap)
    lock,       \* DataStore._lock: the thread holding it, or NoThread
    pc,         \* per thread: position inside the running DataStore method
    local,      \* per thread: local variables of the running method
    ret,        \* per thread: value returned by the last finished method
    primary,    \* content of data_file
    temp,       \* content of data_file.with_suffix('.tmp')
    backups,    \* backup_dir: set of [name, mtime, content]
    now,        \* the wall clock
    hist,       \* history: what the environment and the last save did
    is_running,                     \* SaveManager.is_running
    idle_timer,                     \* SaveManager.idle_timer: a timer or NoTimer
    continuous_session_start,       \* SaveManager.continuous_session_start
    keystroke_count_since_save,     \* SaveManager.keystroke_count_since_save
    timers,     \* the threading.Timer objects created so far, each with its state
    at,         \* per thread: position inside the running SaveManager method
    logger_previous_key,    \* KeyboardLogger.previous_key
    key_sequence    \* KeyboardLogger.key_sequence: the latest key codes

\* the SaveManager and its timers
SchedVars == <<is_running, idle_timer, continuous_session_start,
               keystroke_count_since_save, timers, at>>

\* the KeyboardLogger
LoggerVars == <<logger_previous_key, key_sequence>>

vars == <<heap, data, snap, lock, pc, local, ret, primary, temp, backups, now,
          hist, SchedVars, LoggerVars>>

-----------------------------------------------------------------------------
(* Bounds of the model *)

MaxEvents == 2      \* recorded events (keystrokes and sequences) in a run
                    \* without files
MaxRecorded == 1    \* recorded events in a run with files
MaxTime == 1        \* seconds the clock ticks through in a run with files
MaxDays == 1        \* midnights in a run without files
MaxEnv == 1         \* events of the environment in a run: a failing I/O call,
                    \* a foreign write to the primary file, a restart

Threads == {"main"}
NoThread == "none"

KeyCodes == {"65", "66"}

\* logger._get_modifier_name: the names of the modifier keys that may be held
ModifierNames == {"ctrl", "shift"}

\* sorted() on modifier names: their place in alphabetical order
AlphabeticalRank(name) ==
    CASE name = "alt" -> 1 [] name = "ctrl" -> 2 [] name = "shift" -> 3
      [] name = "win" -> 4

RECURSIVE Sorted(_)
\* sorted(list(names))
Sorted(names) ==
    IF names = {} THEN <<>>
    ELSE LET first == CHOOSE n \in names :
                         \A o \in names : AlphabeticalRank(n) <= AlphabeticalRank(o)
         IN  <<first>> \o Sorted(names \ {first})

RECURSIVE JoinPlus(_)
\* '+'.join(names)
JoinPlus(names) ==
    IF names = <<>> THEN ""
    ELSE IF Len(names) = 1 THEN names[1]
    ELSE names[1] \o "+" \o JoinPlus(Tail(names))

\* logger._get_modifier_combination, lines 309-316
GetModifierCombination(pressed_modifiers) ==
    IF pressed_modifiers = {} THEN "none"
    ELSE JoinPlus(Sorted(pressed_modifiers))

\* the strings the logger passes as `modifiers`
CapturedModifiers == {GetModifierCombination(p) : p \in SUBSET ModifierNames}

\* the strings update_key_statistics is called with: those of the logger and,
\* from any other caller, the same names joined in another order
Modifiers == CapturedModifiers \cup {"shift+ctrl"}

\* logger._get_key_name: the display name the capture source passes for a code
KeyNameOf(k) == IF k = "65" THEN "A" ELSE "B"

-----------------------------------------------------------------------------
(* Python scalars whose type the code inspects (isinstance, is None) *)

PyInt(n) == [type |-> "int", val |-> n]
PyStr(s) == [type |-> "str", val |-> s]
PyNone == [type |-> "NoneType", val |-> 0]

\* The clock counts seconds. date.today().isoformat() at time t is the day
\* t falls in.
SecondsPerDay == 24 * 60 * 60
Today(t) == PyStr(t \div SecondsPerDay)

EmptyDict == <<>>

\* dict[key] = value
DictSet(d, k, v) == [x \in (DOMAIN d) \cup {k} |-> IF x = k THEN v ELSE d[x]]

-----------------------------------------------------------------------------
(* The document *)

EmptyTotalStatistics ==
    [total_keystrokes |-> PyInt(0),
     first_record_date |-> PyNone,
     last_record_date |-> PyNone,
     version |-> "1.0"]

EmptyKeySequences == [bigrams |-> EmptyDict, trigrams |-> EmptyDict]

\* _get_empty_data_structure, as a value
EmptyDocument ==
    [total_statistics |-> EmptyTotalStatistics,
     key_statistics |-> EmptyDict,
     key_sequences |-> EmptyKeySequences]

Sections == {"total_statistics", "key_statistics", "key_sequences"}


-----------------------------------------------------------------------------
(* update_key_statistics, on the dictionaries it mutates *)

IsNone(x) == x.type = "NoneType"

\* a total that counts every keystroke twice
UpdateTotalStatisticsTwice(ts, today) ==
    [ts EXCEPT !.total_keystrokes = PyInt(@.val + 2),
               !.first_record_date = IF IsNone(@) THEN today ELSE @,
               !.last_record_date = today]

\* dates that follow the latest keystroke, both of them
UpdateTotalStatisticsRedated(ts, today) ==
    [ts EXCEPT !.total_keystrokes = PyInt(@.val + 1),
               !.first_record_date = today,
               !.last_record_date = today]

\* lines 153-158: the counters and dates of total_statistics
UpdateTotalStatistics(ts, today) ==
    [ts EXCEPT !.total_keystrokes = PyInt(@.val + 1),
               !.first_record_date = IF IsNone(@) THEN today ELSE @,
               !.last_record_date = today]

NewKeyEntry(key_name) ==
    [key_name |-> key_name, count |-> 0, modifier_combinations |-> EmptyDict]

NewModifierEntry == [count |-> 0, preceded_by |-> EmptyDict]

\* lines 182-185: preceded_by of one ModifierEntry
UpdatePrecededBy(pb, previous_key) ==
    IF IsNone(previous_key) THEN pb
    ELSE LET p == previous_key.val
             pb0 == IF p \notin DOMAIN pb THEN DictSet(pb, p, 0) ELSE pb
         IN  [pb0 EXCEPT ![p] = @ + 1]

\* an update that counts the keystroke under every combination of the key
UpdateModifierCombinationsAll(mc, modifiers, previous_key) ==
    LET mc0 == IF modifiers \notin DOMAIN mc
               THEN DictSet(mc, modifiers, NewModifierEntry) ELSE mc
    IN  [m \in DOMAIN mc0 |->
            [mc0[m] EXCEPT !.count = @ + 1,
                           !.preceded_by =
                               IF m = modifiers
                               THEN UpdatePrecededBy(@, previous_key) ELSE @]]

\* lines 172-185: modifier_combinations of one KeyEntry
UpdateModifierCombinations(mc, modifiers, previous_key) ==
    LET mc0 == IF modifiers \notin DOMAIN mc
               THEN DictSet(mc, modifiers, NewModifierEntry) ELSE mc
    IN  [mc0 EXCEPT ![modifiers] =
            [@ EXCEPT !.count = @ + 1,
                      !.preceded_by = UpdatePrecededBy(@, previous_key)]]

\* an update that stores the name of every key press
UpdateKeyStatisticsRenaming(ks, key_code, key_name, modifiers, previous_key) ==
    LET ks0 == IF key_code \notin DOMAIN ks
               THEN DictSet(ks, key_code, NewKeyEntry(key_name)) ELSE ks
    IN  [ks0 EXCEPT ![key_code] =
            [@ EXCEPT !.key_name = key_name,
                      !.count = @ + 1,
                      !.modifier_combinations =
                          UpdateModifierCombinations(@, modifiers, previous_key)]]

\* lines 161-185: the key_statistics dictionary
UpdateKeyStatistics(ks, key_code, key_name, modifiers, previous_key) ==
    LET ks0 == IF key_code \notin DOMAIN ks
               THEN DictSet(ks, key_code, NewKeyEntry(key_name)) ELSE ks
    IN  [ks0 EXCEPT ![key_code] =
            [@ EXCEPT !.count = @ + 1,
                      !.modifier_combinations =
                          UpdateModifierCombinations(@, modifiers, previous_key)]]

-----------------------------------------------------------------------------
(* update_sequence_statistics *)

RECURSIVE JoinBare(_, _)
\* a join that leaves the separator out
JoinBare(parts, sep) ==
    IF Len(parts) = 0 THEN ""
    ELSE parts[1] \o JoinBare(Tail(parts), sep)

RECURSIVE Join(_, _)
\* sep.join(parts)
Join(parts, sep) ==
    IF Len(parts) = 0 THEN ""
    ELSE IF Len(parts) = 1 THEN parts[1]
    ELSE parts[1] \o sep \o Join(Tail(parts), sep)

\* _get_key_name
GetKeyName(ks, key_code) ==
    IF key_code \in DOMAIN ks THEN ks[key_code].key_name ELSE "Key_" \o key_code

\* lines 196-209: the key_sequences dictionary (ks: key_statistics, read only)
UpdateKeySequences(sq, ks, sequence, sequence_type) ==
    LET sq0 == IF sequence_type \notin DOMAIN sq
               THEN DictSet(sq, sequence_type, EmptyDict) ELSE sq
        sequence_key == Join(sequence, "_")
        sequence_display ==
            Join([i \in 1..Len(sequence) |-> GetKeyName(ks, sequence[i])], "->")
        tbl == sq0[sequence_type]
        tbl0 == IF sequence_key \notin DOMAIN tbl
                THEN DictSet(tbl, sequence_key,
                             [sequence |-> sequence_display, count |-> 0])
                ELSE tbl
    IN  DictSet(sq0, sequence_type,
                [tbl0 EXCEPT ![sequence_key] = [@ EXCEPT !.count = @ + 1]])

-----------------------------------------------------------------------------
(* Objects and references *)

ObjIds == 1..6

Min(S) == CHOOSE x \in S : \A y \in S : x <= y

Refs(d) == {d[s] : s \in DOMAIN d}

NoSnap == <<>>

\* the objects reachable from a top-level dictionary (none from NoSnap)
Reach(d) == IF d = NoSnap THEN {} ELSE Refs(d)

\* A new top-level dictionary holding three new objects with the sections of
\* `doc`, in a heap where only the objects in `keep` are still referenced.
Allocate(h, keep, doc) ==
    LET free == ObjIds \ keep
        a == Min(free)
        b == Min(free \ {a})
        c == Min(free \ {a, b})
        top == [total_statistics |-> a, key_statistics |-> b, key_sequences |-> c]
    IN  [top |-> top,
         heap |-> [o \in keep \cup {a, b, c} |->
                     IF o = a THEN doc.total_statistics
                     ELSE IF o = b THEN doc.key_statistics
                     ELSE IF o = c THEN doc.key_sequences
                     ELSE h[o]]]

\* what a holder of the top-level dictionary d reads through it
Deref(h, d) == [s \in DOMAIN d |-> h[d[s]]]

Document == Deref(heap, data)

-----------------------------------------------------------------------------
(* json.dump / json.load on a document *)

JNum(n) == <<"number", n>>
JStr(x) == <<"string", x>>
JNull == <<"null">>

\* a Python scalar as a JSON token
DumpScalar(x) ==
    IF x.type = "int" THEN JNum(x.val)
    ELSE IF x.type = "NoneType" THEN JNull
    ELSE JStr(x.val)

\* a JSON token as a Python scalar
LoadScalar(tok) ==
    IF tok[1] = "number" THEN PyInt(tok[2])
    ELSE IF tok[1] = "null" THEN PyNone
    ELSE PyStr(tok[2])

\* json.dump(self.data): the JSON object written for a document (dictionary
\* keys are strings already, so they are written as they are)
JsonDump(doc) ==
    [total_statistics |->
        [total_keystrokes |-> DumpScalar(doc.total_statistics.total_keystrokes),
         first_record_date |-> DumpScalar(doc.total_statistics.first_record_date),
         last_record_date |-> DumpScalar(doc.total_statistics.last_record_date),
         version |-> JStr(doc.total_statistics.version)],
     key_statistics |->
        [k \in DOMAIN doc.key_statistics |->
            LET e == doc.key_statistics[k] IN
            [key_name |-> JStr(e.key_name),
             count |-> JNum(e.count),
             modifier_combinations |->
                [m \in DOMAIN e.modifier_combinations |->
                    LET me == e.modifier_combinations[m] IN
                    [count |-> JNum(me.count),
                     preceded_by |-> [p \in DOMAIN me.preceded_by |->
                                        JNum(me.preceded_by[p])]]]]],
     key_sequences |->
        [ty \in DOMAIN doc.key_sequences |->
            [sk \in DOMAIN doc.key_sequences[ty] |->
                [sequence |-> JStr(doc.key_sequences[ty][sk].sequence),
                 count |-> JNum(doc.key_sequences[ty][sk].count)]]]]

LoadTotalStatistics(j) ==
    [total_keystrokes |-> LoadScalar(j.total_keystrokes),
     first_record_date |-> LoadScalar(j.first_record_date),
     last_record_date |-> LoadScalar(j.last_record_date),
     version |-> j.version[2]]

LoadKeyStatistics(j) ==
    [k \in DOMAIN j |->
        [key_name |-> j[k].key_name[2],
         count |-> j[k].count[2],
         modifier_combinations |->
            [m \in DOMAIN j[k].modifier_combinations |->
                LET me == j[k].modifier_combinations[m] IN
                [count |-> me.count[2],
                 preceded_by |-> [p \in DOMAIN me.preceded_by |->
                                    me.preceded_by[p][2]]]]]]

\* a reader that forgets the counts of the sequences
LoadKeySequencesUncounted(j) ==
    [ty \in DOMAIN j |->
        [sk \in DOMAIN j[ty] |->
            [sequence |-> j[ty][sk].sequence[2], count |-> 0]]]

LoadKeySequences(j) ==
    [ty \in DOMAIN j |->
        [sk \in DOMAIN j[ty] |->
            [sequence |-> j[ty][sk].sequence[2], count |-> j[ty][sk].count[2]]]]

\* json.load(f) of a JSON object: the Python dictionary with the members
\* the object has
JsonLoad(j) ==
    [s \in DOMAIN j |->
        IF s = "total_statistics" THEN LoadTotalStatistics(j[s])
        ELSE IF s = "key_statistics" THEN LoadKeyStatistics(j[s])
        ELSE LoadKeySequences(j[s])]

-----------------------------------------------------------------------------
(* Files *)

Absent == [kind |-> "absent"]           \* no such file
EmptyFile == [kind |-> "empty"]         \* zero bytes, as after open(.., 'w')
Partial == [kind |-> "partial"]         \* a proper prefix of what was being written
Garbage == [kind |-> "garbage"]         \* bytes that are no JSON text
Text(j) == [kind |-> "json", json |-> j]    \* the complete JSON text of j

Exists(f) == f.kind # "absent"

\* whether json.load(f) returns (else it raises JSONDecodeError)
Parses(f) == f.kind = "json"

\* gzip: the compressed copy of a file's bytes, and its decompression
Gzip(f) == [kind |-> "gzip", of |-> f]
Gunzip(g) == g.of
\* whether the snapshot decompresses (a snapshot cut short does not)
Decompresses(g) == g.kind = "gzip"

\* JSON texts another program may leave in the primary file
JsonOfEmpty == JsonDump(EmptyDocument)
NegativeTotalJson ==
    [JsonOfEmpty EXCEPT !.total_statistics.total_keystrokes = JNum(-1)]
NullTotalJson ==
    [JsonOfEmpty EXCEPT !.total_statistics.total_keystrokes = JNull]
MissingKeyJson ==
    [s \in Sections \ {"key_sequences"} |-> JsonOfEmpty[s]]

\* what another program may make of the primary file (Absent: it deletes it)
TamperContents ==
    {Absent, Garbage,
     Text(NegativeTotalJson), Text(NullTotalJson), Text(MissingKeyJson)}

-----------------------------------------------------------------------------
(* _validate_data *)

\* lines 307-311: every required key is in the dictionary
HasRequiredKeys(d) == \A key \in Sections : key \in DOMAIN d

\* line 315: isinstance(total_stats.get("total_keystrokes"), int)
TotalIsInt(d) == d.total_statistics.total_keystrokes.type = "int"

ValidateData(d) == HasRequiredKeys(d) /\ TotalIsInt(d)

-----------------------------------------------------------------------------
(* Backup snapshots: backup_dir holds files keyboard_log_<timestamp>.json.gz *)

KeepCount == 10

\* _cleanup_old_backups: the keep_count files with the latest st_mtime stay
CleanupOldBackups(bs, keep_count) ==
    {b \in bs : Cardinality({c \in bs : c.mtime > b.mtime}) < keep_count}

\* lines 329-335: the snapshot written at time t (a file of the same
\* timestamp is overwritten)
WriteBackup(bs, prim, t) ==
    {b \in bs : b.name # t} \cup {[name |-> t, mtime |-> t, content |-> Gzip(prim)]}

\* a backup made of the document that is about to be written
CreateBackupOfDocument(bs, prim, t) ==
    IF Exists(prim)
    THEN CleanupOldBackups(WriteBackup(bs, Text(JsonDump(Document)), t), KeepCount)
    ELSE bs

\* lines 333-335 interrupted: gzip.open(backup_file, 'wb') has created or
\* truncated the file of this timestamp and the copy stopped before its end
CutShortBackup(bs, t) ==
    {b \in bs : b.name # t} \cup {[name |-> t, mtime |-> t, content |-> Partial]}

\* _create_backup with a failure, which it swallows (lines 342-343, 356-357):
\* before the snapshot file is opened, while it is written, or in
\* _cleanup_old_backups, which then has removed nothing
FailedBackups(bs, prim, t) ==
    {bs, CutShortBackup(bs, t), WriteBackup(bs, prim, t)}

\* _create_backup without a failure
CreateBackup(bs, prim, t) ==
    IF Exists(prim) THEN CleanupOldBackups(WriteBackup(bs, prim, t), KeepCount)
    ELSE bs

\* lines 370-371: backup_files sorted by st_mtime, latest first; element 0
LatestBackup(bs) == CHOOSE b \in bs : \A c \in bs : c.mtime <= b.mtime

-----------------------------------------------------------------------------
(* State after construction of the first DataStore, on an empty directory *)

NoLocal == [create_backup |-> FALSE, failed |-> "none", ctor |-> FALSE,
            nested |-> FALSE, args |-> <<>>]
NoFailure == "none"

NotSaved == [valid |-> FALSE, doc |-> EmptyDocument]

Platforms == {"posix", "nt"}

\* DataStore.__init__ on an empty directory, in a process with these threads
StoreInit(threads) ==
    /\ LET m == Allocate(<<>>, {}, EmptyDocument) IN
          /\ heap = m.heap
          /\ data = m.top
    /\ snap = NoSnap
    /\ lock = NoThread
    /\ pc = [t \in threads |-> "idle"]
    /\ local = [t \in threads |-> NoLocal]
    /\ ret = [t \in threads |-> [op |-> "init", ok |-> TRUE, failed |-> NoFailure]]
    /\ primary = Absent
    /\ temp = Absent
    /\ backups = {}
    /\ now = 0
    /\ \E os \in Platforms :
          hist = [events |-> 0, env |-> 0, os |-> os, saved |-> NotSaved,
                  calls |-> EmptyDict]

\* no timer (None)
NoTimer == 0

\* the timers a run may create, in the order of their creation; each runs
\* its callback on a thread of its own, named like the timer
TimerNames == <<"timer1", "timer2", "timer3", "timer4">>

\* a thread that is in no SaveManager method
Outside == [in |-> "idle", save_type |-> "none", saves |-> 0, seen |-> 0,
            key_code |-> ""]

\* KeyboardLogger.__init__, lines 141-143
LoggerInit ==
    /\ logger_previous_key = PyNone
    /\ key_sequence = <<>>

\* SaveManager.__init__, lines 33-56
SchedInit(threads) ==
    /\ is_running = FALSE
    /\ idle_timer = NoTimer
    /\ continuous_session_start = PyNone
    /\ keystroke_count_since_save = 0
    /\ timers = <<>>
    /\ at = [t \in threads |-> Outside]

Init == StoreInit(Threads) /\ SchedInit(Threads) /\ LoggerInit

CanDisturb == hist.env < MaxEnv
Disturbed(h) == [h EXCEPT !.env = @ + 1]
CanFault == CanDisturb
Fault(h) == Disturbed(h)

\* a method returns: the lock of its `with` block is released
Return(t, op, ok) ==
    /\ pc' = [pc EXCEPT ![t] = "idle"]
    /\ ret' = [ret EXCEPT ![t] = [op |-> op, ok |-> ok, failed |-> local[t].failed]]
    /\ local' = [local EXCEPT ![t] = NoLocal]
    /\ lock' = NoThread

\* self.data = <a new dictionary with the sections of doc>
Rebind(doc) ==
    LET m == Allocate(heap, Reach(snap), doc) IN
    /\ heap' = m.heap
    /\ data' = m.top

-----------------------------------------------------------------------------
(* update_key_statistics, update_sequence_statistics, get_statistics *)

PreviousKeys == {PyNone} \cup {PyStr(k) : k \in KeyCodes}

UpdateKeyStatisticsCall(t, key_code, key_name, modifiers, previous_key) ==
    /\ pc[t] = "idle"
    /\ lock = NoThread
    /\ heap' = [heap EXCEPT
           ![data.total_statistics] = UpdateTotalStatistics(@, Today(now)),
           ![data.key_statistics] =
               UpdateKeyStatistics(@, key_code, key_name, modifiers, previous_key)]
    /\ ret' = [ret EXCEPT ![t] = [op |-> "update_key_statistics", ok |-> TRUE, failed |-> NoFailure]]
    /\ hist' = [hist EXCEPT !.events = @ + 1]
    /\ UNCHANGED <<data, snap, lock, pc, local, primary, temp, backups, now>>

\* a lock that lets everyone in
AcquirableAlways(l) == TRUE

\* with self._lock: the lock can be taken when no thread holds it
Acquirable(l) == l = NoThread

\* update_key_statistics as other threads see it. Lines 151-158: the lock is
\* taken and total_statistics is updated ...
UpdateKeyStatisticsEnter(t, key_code, key_name, modifiers, previous_key) ==
    /\ pc[t] = "idle"
    /\ Acquirable(lock)
    /\ lock' = t
    /\ heap' = [heap EXCEPT
           ![data.total_statistics] = UpdateTotalStatistics(@, Today(now))]
    /\ pc' = [pc EXCEPT ![t] = "update_key"]
    /\ local' = [local EXCEPT ![t] =
           [NoLocal EXCEPT !.args = <<key_code, key_name, modifiers, previous_key>>]]
    /\ hist' = [hist EXCEPT !.events = @ + 1]
    /\ UNCHANGED <<data, snap, ret, primary, temp, backups, now>>

\* ... lines 161-185: the key entry is updated and the lock is released
UpdateKeyStatisticsFinish(t) ==
    /\ pc[t] = "update_key"
    /\ LET a == local[t].args IN
       heap' = [heap EXCEPT
           ![data.key_statistics] = UpdateKeyStatistics(@, a[1], a[2], a[3], a[4])]
    /\ Return(t, "update_key_statistics", TRUE)
    /\ UNCHANGED <<data, snap, primary, temp, backups, now, hist>>

SequenceInputs ==
    {<<<<a, b>>, "bigrams">> : a \in KeyCodes, b \in KeyCodes}
    \cup {<<<<a, b, a>>, "trigrams">> : a \in KeyCodes, b \in KeyCodes}

\* the calls of update_sequence_statistics made so far, counted by argument
CallsWith(calls, sequence, sequence_type) ==
    IF <<sequence, sequence_type>> \in DOMAIN calls
    THEN calls[<<sequence, sequence_type>>] ELSE 0

Called(calls, sequence, sequence_type) ==
    DictSet(calls, <<sequence, sequence_type>>,
            CallsWith(calls, sequence, sequence_type) + 1)

UpdateSequenceStatisticsCall(t, sequence, sequence_type) ==
    /\ pc[t] = "idle"
    /\ lock = NoThread
    /\ heap' = [heap EXCEPT
           ![data.key_sequences] =
               UpdateKeySequences(@, heap[data.key_statistics],
                                  sequence, sequence_type)]
    /\ ret' = [ret EXCEPT ![t] = [op |-> "update_sequence_statistics", ok |-> TRUE, failed |-> NoFailure]]
    /\ hist' = [hist EXCEPT !.events = @ + 1,
                            !.calls = Called(@, sequence, sequence_type)]
    /\ UNCHANGED <<data, snap, lock, pc, local, primary, temp, backups, now>>

\* self.data.copy(): a new top-level dictionary with the same three objects
ShallowCopy(d) == d

GetStatisticsCall(t) ==
    /\ pc[t] = "idle"
    /\ lock = NoThread
    /\ snap' = ShallowCopy(data)
    /\ heap' = [o \in Reach(data) |-> heap[o]]
    /\ ret' = [ret EXCEPT ![t] = [op |-> "get_statistics", ok |-> TRUE, failed |-> NoFailure]]
    /\ UNCHANGED <<data, lock, pc, local, primary, temp, backups, now, hist>>
    /\ UNCHANGED <<SchedVars, LoggerVars>>

-----------------------------------------------------------------------------
(* save_data *)

MemVars == <<heap, data, snap>>

\* datetime.now() (line 329): the clock never runs backwards
ClockReads(t) == {t} \cup {c \in {t + 1} : c <= MaxTime}

\* lines 114-118: the lock is taken and, with create_backup, _create_backup
\* runs; whatever it raises is caught inside it (lines 342-343), so
\* save_data goes on either way
SaveCall(t, create_backup) ==
    /\ pc[t] = "idle"
    /\ lock = NoThread
    /\ lock' = t
    /\ pc' = [pc EXCEPT ![t] = "save_open"]
    /\ \/ /\ ~create_backup
          /\ local' = [local EXCEPT ![t] = NoLocal]
          /\ UNCHANGED <<backups, now, hist>>
       \/ /\ create_backup
          /\ \E c \in ClockReads(now) :
                /\ now' = c
                /\ backups' = CreateBackup(backups, primary, c)
          /\ local' = [local EXCEPT ![t] =
                          [NoLocal EXCEPT !.create_backup = TRUE]]
          /\ UNCHANGED hist
       \/ /\ create_backup
          /\ Exists(primary)
          /\ CanFault
          /\ \E c \in ClockReads(now) :
                /\ now' = c
                /\ backups' \in FailedBackups(backups, primary, c)
          /\ local' = [local EXCEPT ![t] =
                          [NoLocal EXCEPT !.create_backup = TRUE,
                                          !.failed = "backup"]]
          /\ hist' = Fault(hist)
    /\ UNCHANGED <<MemVars, ret, primary, temp>>

\* a collaborator other than the SaveManager calls save_data
SaveDataCall(t, create_backup) ==
    /\ SaveCall(t, create_backup)
    /\ UNCHANGED <<SchedVars, LoggerVars>>

\* lines 123-124: open(temp_file, 'w') creates or truncates the temporary
\* file, json.dump(self.data, f) writes the document, and the file is closed
SaveWriteTemp(t) ==
    /\ pc[t] = "save_open"
    /\ \/ /\ temp' = Text(JsonDump(Document))
          /\ pc' = [pc EXCEPT ![t] = "save_move"]
          /\ UNCHANGED <<local, hist>>
       \/ /\ CanFault
          /\ UNCHANGED temp
          /\ pc' = [pc EXCEPT ![t] = "save_except"]
          /\ local' = [local EXCEPT ![t].failed = "open"]
          /\ hist' = Fault(hist)
       \/ /\ CanFault
          /\ temp' = Partial
          /\ pc' = [pc EXCEPT ![t] = "save_except"]
          /\ local' = [local EXCEPT ![t].failed = "dump"]
          /\ hist' = Fault(hist)
    /\ UNCHANGED <<MemVars, lock, ret, primary, backups, now>>
    /\ UNCHANGED <<SchedVars, LoggerVars>>

\* os.rename(src, dst) inside shutil.move: on Windows it raises when dst
\* exists; elsewhere it replaces dst in one step
RenameReplaces(os, dst) == os = "posix" \/ ~Exists(dst)

\* line 127: shutil.move(temp_file, data_file). It tries os.rename and, when
\* that raises OSError, copies the file over the destination instead.
SaveMove(t) ==
    /\ pc[t] = "save_move"
    /\ \/ /\ RenameReplaces(hist.os, primary)
          /\ primary' = temp
          /\ temp' = Absent
          /\ hist' = [hist EXCEPT !.saved = [valid |-> TRUE, doc |-> Document]]
          /\ Return(t, "save_data", TRUE)
       \/ /\ ~RenameReplaces(hist.os, primary)
          /\ pc' = [pc EXCEPT ![t] = "save_copy"]
          /\ UNCHANGED <<lock, ret, local, primary, temp, hist>>
       \/ /\ CanFault
          /\ RenameReplaces(hist.os, primary)
          /\ pc' = [pc EXCEPT ![t] = "save_copy"]
          /\ hist' = Fault(hist)
          /\ UNCHANGED <<lock, ret, local, primary, temp>>
    /\ UNCHANGED <<MemVars, backups, now>>
    /\ UNCHANGED <<SchedVars, LoggerVars>>

\* shutil.move's fallback, copy2(src, dst): dst is opened for writing, which
\* truncates it
SaveCopyOpen(t) ==
    /\ pc[t] = "save_copy"
    /\ \/ /\ primary' = EmptyFile
          /\ pc' = [pc EXCEPT ![t] = "save_copy_write"]
          /\ hist' = [hist EXCEPT !.saved = NotSaved]
          /\ UNCHANGED local
       \/ /\ CanFault
          /\ pc' = [pc EXCEPT ![t] = "save_except"]
          /\ local' = [local EXCEPT ![t].failed = "move"]
          /\ hist' = Fault(hist)
          /\ UNCHANGED primary
    /\ UNCHANGED <<MemVars, lock, ret, temp, backups, now>>
    /\ UNCHANGED <<SchedVars, LoggerVars>>

\* ... the bytes of src are written to dst, then src is removed (os.unlink)
SaveCopyWrite(t) ==
    /\ pc[t] = "save_copy_write"
    /\ \/ /\ primary' = temp
          /\ temp' = Absent
          /\ hist' = [hist EXCEPT !.saved = [valid |-> TRUE, doc |-> Document]]
          /\ Return(t, "save_data", TRUE)
       \/ /\ CanFault
          /\ primary' = Partial
          /\ pc' = [pc EXCEPT ![t] = "save_except"]
          /\ local' = [local EXCEPT ![t].failed = "move"]
          /\ hist' = Fault(hist)
          /\ UNCHANGED <<lock, ret, temp>>
    /\ UNCHANGED <<MemVars, backups, now>>
    /\ UNCHANGED <<SchedVars, LoggerVars>>

\* a handler that reports success
SaveFailureResultTrue == TRUE

\* line 138: what save_data returns from its exception handler
SaveFailureResult == FALSE

\* lines 132-138: the handler removes the temporary file if it is there
SaveExcept(t) ==
    /\ pc[t] = "save_except"
    /\ temp' = Absent
    /\ Return(t, "save_data", SaveFailureResult)
    /\ UNCHANGED <<MemVars, primary, backups, now, hist>>
    /\ UNCHANGED <<SchedVars, LoggerVars>>

SaveStep(t) ==
    \/ SaveWriteTemp(t)
    \/ SaveMove(t)
    \/ SaveCopyOpen(t)
    \/ SaveCopyWrite(t)
    \/ SaveExcept(t)

-----------------------------------------------------------------------------
(* load_data and _restore_from_backup *)

FileVars == <<primary, temp, backups>>

\* a collaborator calls load_data on the live store
LoadCall(t) ==
    /\ pc[t] = "idle"
    /\ pc' = [pc EXCEPT ![t] = "load_lock"]
    /\ local' = [local EXCEPT ![t] = NoLocal]
    /\ UNCHANGED <<MemVars, lock, ret, FileVars, now, hist>>
    /\ UNCHANGED <<SchedVars, LoggerVars>>

\* Line 78, with self._lock: threading.Lock is not reentrant, the caller goes
\* on once the lock is free, whoever holds it.
LoadAcquire(t) ==
    /\ pc[t] = "load_lock"
    /\ lock = NoThread
    /\ lock' = t
    /\ pc' = [pc EXCEPT ![t] = "load_body"]
    /\ UNCHANGED <<MemVars, local, ret, FileVars, now, hist>>
    /\ UNCHANGED <<SchedVars, LoggerVars>>

\* the value load_data returns is handed to __init__ or to the caller
LoadReturn(t, ok) == Return(t, IF local[t].ctor THEN "init" ELSE "load_data", ok)

\* lines 81-85: the file parses and the parsed dictionary passes validation
Adoptable(f) == IF Parses(f) THEN ValidateData(JsonLoad(f.json)) ELSE FALSE

\* a document with a keystroke in it
StaleDocument ==
    [EmptyDocument EXCEPT !.total_statistics.total_keystrokes = PyInt(1)]

\* line 94: the document adopted when the data file does not exist
DocumentWhenAbsent == EmptyDocument

\* lines 80-102
LoadBody(t) ==
    /\ pc[t] = "load_body"
    /\ \/ /\ ~Exists(primary)
          /\ Rebind(DocumentWhenAbsent)
          /\ LoadReturn(t, TRUE)
          /\ UNCHANGED hist
       \/ /\ Exists(primary)
          /\ Adoptable(primary)
          /\ Rebind(JsonLoad(primary.json))
          /\ LoadReturn(t, TRUE)
          /\ UNCHANGED hist
       \/ /\ Exists(primary)
          /\ ~Adoptable(primary)
          /\ pc' = [pc EXCEPT ![t] = "restore"]
          /\ UNCHANGED <<heap, data, lock, ret, local, hist>>
       \/ /\ Exists(primary)
          /\ CanFault
          /\ pc' = [pc EXCEPT ![t] = "restore"]
          /\ local' = [local EXCEPT ![t].failed = "read"]
          /\ hist' = Fault(hist)
          /\ UNCHANGED <<heap, data, lock, ret>>
    /\ UNCHANGED <<snap, FileVars, now>>
    /\ UNCHANGED <<SchedVars, LoggerVars>>

\* a document that is not the empty one
LeftoverDocument ==
    [EmptyDocument EXCEPT !.total_statistics.version = "0.9"]

\* lines 366 and 385: the document after a restore that found no snapshot,
\* or that failed
DocumentWhenNotRestored == EmptyDocument

\* a handler that reports the failed restore
RestoreFailureResultFalse == FALSE

\* line 386: what _restore_from_backup returns from its exception handler
RestoreFailureResult == TRUE

\* lines 361-386, up to the call of load_data in line 381
Restore(t) ==
    /\ pc[t] = "restore"
    /\ \/ /\ backups = {}
          /\ Rebind(DocumentWhenNotRestored)
          /\ LoadReturn(t, TRUE)
          /\ UNCHANGED <<primary, hist>>
       \/ /\ backups # {}
          /\ Decompresses(LatestBackup(backups).content)
          /\ primary' = Gunzip(LatestBackup(backups).content)
          /\ hist' = [hist EXCEPT !.saved = NotSaved]
          /\ pc' = [pc EXCEPT ![t] = "load_lock"]
          /\ local' = [local EXCEPT ![t].nested = TRUE]
          /\ UNCHANGED <<heap, data, lock, ret>>
       \/ /\ backups # {}
          /\ Decompresses(LatestBackup(backups).content) => CanFault
          /\ primary' = Partial
          /\ hist' = [(IF Decompresses(LatestBackup(backups).content)
                       THEN Fault(hist) ELSE hist) EXCEPT !.saved = NotSaved]
          /\ Rebind(DocumentWhenNotRestored)
          /\ LoadReturn(t, RestoreFailureResult)
    /\ UNCHANGED <<snap, temp, backups, now>>
    /\ UNCHANGED <<SchedVars, LoggerVars>>

LoadStep(t) == LoadAcquire(t) \/ LoadBody(t) \/ Restore(t)

-----------------------------------------------------------------------------
(* The environment *)

\* A new DataStore is constructed on the same file: __init__, lines 28-40, up
\* to the call of load_data. The lock is new. The files stay as they are.
Construct(t) ==
    /\ CanDisturb
    /\ pc[t] = "idle"
    /\ hist' = Disturbed(hist)
    /\ lock' = NoThread
    /\ LET m == Allocate(<<>>, {}, EmptyDocument) IN
          /\ heap' = m.heap
          /\ data' = m.top
    /\ snap' = NoSnap
    /\ pc' = [pc EXCEPT ![t] = "load_lock"]
    /\ local' = [local EXCEPT ![t] = [NoLocal EXCEPT !.ctor = TRUE]]
    /\ UNCHANGED <<ret, FileVars, now>>
    /\ UNCHANGED <<SchedVars, LoggerVars>>

\* another program overwrites or deletes the primary file (between two
\* methods)
Tamper ==
    /\ CanDisturb
    /\ \A t \in Threads : pc[t] = "idle"
    /\ \E c \in TamperContents : primary' = c
    /\ hist' = [Disturbed(hist) EXCEPT !.saved = NotSaved]
    /\ UNCHANGED <<MemVars, lock, pc, local, ret, temp, backups, now>>
    /\ UNCHANGED <<SchedVars, LoggerVars>>

\* Midnight passes (between two methods)
DayPasses ==
    /\ now < MaxDays * SecondsPerDay
    /\ \A t \in Threads : pc[t] = "idle"
    /\ now' = ((now \div SecondsPerDay) + 1) * SecondsPerDay
    /\ UNCHANGED <<MemVars, lock, pc, local, ret, FileVars, hist>>
    /\ UNCHANGED <<SchedVars, LoggerVars>>

-----------------------------------------------------------------------------
(* SaveManager (src/src/save_manager.py)                                     *)
(*                                                                           *)
(* _timer_lock is held only around assignments and Timer.cancel/start, which *)
(* do not block: each `with self._timer_lock` block is one step.             *)

\* config.get_keystroke_batch_save() and get_continuous_save_interval(), in
\* events and in seconds
BatchSize == 2
ContinuousInterval == 1

\* the keys of save_stats that end in "_saves" (lines 51-55)
StatKeys == {"idle", "continuous", "batch"}

StoreVars == <<heap, data, snap, lock, pc, local, ret, primary, temp, backups,
               now, hist>>

TimerThread(i) == TimerNames[i]

\* Timer.cancel() sets the timer's `finished` event: a timer that waits will
\* never run its callback; one whose callback runs already goes on running
Cancelled(state) ==
    IF state = "waiting" THEN "finished"
    ELSE IF state = "running" THEN "running_cancelled"
    ELSE state

\* started, not cancelled, callback not finished
Armed(state) == state \in {"waiting", "running"}

Goto(t, where) ==
    at' = IF where = "idle" THEN [at EXCEPT ![t] = Outside]
          ELSE [at EXCEPT ![t].in = where]

\* the value save_data returned has been assigned to `success` and tested
Consumed == [op |-> "init", ok |-> TRUE, failed |-> NoFailure]

\* start(), lines 60-70
Start(t) ==
    /\ at[t].in = "idle"
    /\ ~is_running
    /\ is_running' = TRUE
    /\ continuous_session_start' = PyInt(now)
    /\ keystroke_count_since_save' = 0
    /\ UNCHANGED <<StoreVars, LoggerVars, idle_timer, timers, at>>

\* stop(), lines 74-77
StopEnter(t) ==
    /\ at[t].in = "idle"
    /\ is_running
    /\ is_running' = FALSE
    /\ at' = [at EXCEPT ![t] = [Outside EXCEPT !.in = "stop_cancel",
                                                !.save_type = "shutdown"]]
    /\ UNCHANGED <<StoreVars, LoggerVars, idle_timer, continuous_session_start,
                   keystroke_count_since_save, timers>>

\* stop(), lines 80-89: the idle timer is cancelled and forgotten
\* (continuous_timer is never assigned), then _perform_save("shutdown")
StopCancel(t) ==
    /\ at[t].in = "stop_cancel"
    /\ IF idle_timer # NoTimer
       THEN /\ timers' = [timers EXCEPT ![idle_timer] = Cancelled(@)]
            /\ idle_timer' = NoTimer
       ELSE UNCHANGED <<timers, idle_timer>>
    /\ Goto(t, "perform_save")
    /\ UNCHANGED <<StoreVars, LoggerVars, is_running, continuous_session_start,
                   keystroke_count_since_save>>

\* where _perform_save returns to
ReturnSite(save_type) ==
    IF save_type = "idle" THEN "idle_finally"
    ELSE IF save_type = "continuous" THEN "continuous_rebase"
    ELSE "idle"

\* the thread leaves _perform_save ("idle": it leaves the SaveManager too)
LeavePerformSave(t) == Goto(t, ReturnSite(at[t].save_type))

\* a test that lets the shutdown save be skipped like any other
NothingToSaveAtAll(count, save_type) == count = 0

\* line 167
NothingToSave(count, save_type) == count = 0 /\ save_type # "shutdown"

\* force_save(), lines 204-211: _perform_save("manual")
ForceSave(t) ==
    /\ at[t].in = "idle"
    /\ at' = [at EXCEPT ![t] = [Outside EXCEPT !.in = "perform_save",
                                                !.save_type = "manual"]]
    /\ UNCHANGED <<StoreVars, LoggerVars, is_running, idle_timer, continuous_session_start,
                   keystroke_count_since_save, timers>>

\* lines 173-187: what _perform_save returns once save_data has returned
PerformSaveResult(success, save_type) == success /\ save_type \in StatKeys

\* the value of _perform_save reaches the caller of force_save (line 211);
\* stop() and the timer callbacks drop it
Returned(t, result, dropped) ==
    IF at[t].save_type = "manual"
    THEN [op |-> "force_save", ok |-> result, failed |-> NoFailure]
    ELSE dropped

\* _perform_save, lines 167-168: nothing to save
PerformSaveSkip(t) ==
    /\ at[t].in = "perform_save"
    /\ NothingToSave(keystroke_count_since_save, at[t].save_type)
    /\ LeavePerformSave(t)
    /\ ret' = [ret EXCEPT ![t] = Returned(t, TRUE, @)]
    /\ UNCHANGED <<heap, data, snap, lock, pc, local, primary, temp, backups,
                   now, hist>>
    /\ UNCHANGED <<LoggerVars, is_running, idle_timer, continuous_session_start,
                   keystroke_count_since_save, timers>>

\* _perform_save, lines 167-171: past the test, before the call
PerformSaveCheck(t) ==
    /\ at[t].in = "perform_save"
    /\ ~NothingToSave(keystroke_count_since_save, at[t].save_type)
    /\ Goto(t, "call_save_data")
    /\ UNCHANGED <<StoreVars, LoggerVars, is_running, idle_timer, continuous_session_start,
                   keystroke_count_since_save, timers>>

\* line 171: self.data_store.save_data()
PerformSaveCall(t) ==
    /\ at[t].in = "call_save_data"
    /\ SaveCall(t, FALSE)
    /\ at' = [at EXCEPT ![t].in = "save_data", ![t].saves = @ + 1]
    /\ UNCHANGED <<LoggerVars, is_running, idle_timer, continuous_session_start,
                   keystroke_count_since_save, timers>>

\* a counter that is reset whatever save_data returned
CountAfterSaveReset(success, save_type, count) == 0

\* lines 173-187: the counter is reset on the path that reaches line 177
CountAfterSave(success, save_type, count) ==
    IF success /\ save_type \in StatKeys THEN 0 ELSE count

\* lines 173-187: save_data has returned. With success, save_stats is
\* counted up under the key save_type + "_saves", which raises KeyError for a
\* save_type that has no such key; the handler of line 185 catches it.
PerformSaveReturn(t) ==
    /\ at[t].in = "save_data"
    /\ pc[t] = "idle"
    /\ keystroke_count_since_save' =
          CountAfterSave(ret[t].ok, at[t].save_type, keystroke_count_since_save)
    /\ LeavePerformSave(t)
    /\ ret' = [ret EXCEPT ![t] =
                  Returned(t, PerformSaveResult(ret[t].ok, at[t].save_type), Consumed)]
    /\ UNCHANGED <<heap, data, snap, lock, pc, local, primary, temp, backups,
                   now, hist>>
    /\ UNCHANGED <<LoggerVars, is_running, idle_timer, continuous_session_start, timers>>

\* A caller records a key press and goes on to notify the SaveManager, as
\* logger._on_key_press (line 238) and keyboard_monitor.py (line 455) are
\* written to do and as tests/phase1_test.py does.
RecordEvent(t, e) ==
    /\ at[t].in = "idle"
    /\ UpdateKeyStatisticsCall(t, e[1], KeyNameOf(e[1]), e[2], e[3])
    /\ at' = [at EXCEPT ![t] = [Outside EXCEPT !.in = "on_keystroke"]]
    /\ UNCHANGED <<LoggerVars, is_running, idle_timer, continuous_session_start,
                   keystroke_count_since_save, timers>>

\* on_keystroke, lines 100-105: past the test, the counter is read
\* (`+= 1` reads, adds and writes; another thread may write in between)
OnKeystrokeEnter(t) ==
    /\ at[t].in = "on_keystroke"
    /\ IF is_running
       THEN at' = [at EXCEPT ![t].in = "count_up",
                             ![t].seen = keystroke_count_since_save]
       ELSE Goto(t, "idle")
    /\ UNCHANGED <<StoreVars, LoggerVars, is_running, idle_timer, continuous_session_start,
                   keystroke_count_since_save, timers>>

\* line 105: the counter is written
OnKeystrokeCount(t) ==
    /\ at[t].in = "count_up"
    /\ keystroke_count_since_save' = at[t].seen + 1
    /\ at' = [at EXCEPT ![t].in = "schedule_idle", ![t].seen = 0]
    /\ UNCHANGED <<StoreVars, LoggerVars, is_running, idle_timer, continuous_session_start,
                   timers>>

\* _schedule_idle_save, lines 120-129
ScheduleIdleSave(t) ==
    /\ at[t].in = "schedule_idle"
    /\ Len(timers) < Len(TimerNames)
    /\ LET cancelled == IF idle_timer # NoTimer
                        THEN [timers EXCEPT ![idle_timer] = Cancelled(@)]
                        ELSE timers
       IN  /\ timers' = Append(cancelled, "waiting")
           /\ idle_timer' = Len(timers) + 1
    /\ Goto(t, "manage_continuous")
    /\ UNCHANGED <<StoreVars, LoggerVars, is_running, continuous_session_start,
                   keystroke_count_since_save>>

\* lines 145-146: the origin of the streak, set now when there is none
StreakOrigin == IF IsNone(continuous_session_start)
                THEN now ELSE continuous_session_start.val

\* _manage_continuous_save_timer, lines 145-153
ManageContinuous(t) ==
    /\ at[t].in = "manage_continuous"
    /\ continuous_session_start' = PyInt(StreakOrigin)
    /\ IF now - StreakOrigin >= ContinuousInterval
       THEN at' = [at EXCEPT ![t].in = "perform_save",
                             ![t].save_type = "continuous"]
       ELSE Goto(t, "batch_check")
    /\ UNCHANGED <<StoreVars, LoggerVars, is_running, idle_timer,
                   keystroke_count_since_save, timers>>

\* line 154, after _perform_save("continuous") has returned
ContinuousRebase(t) ==
    /\ at[t].in = "continuous_rebase"
    /\ continuous_session_start' = PyInt(now)
    /\ Goto(t, "batch_check")
    /\ UNCHANGED <<StoreVars, LoggerVars, is_running, idle_timer,
                   keystroke_count_since_save, timers>>

\* a threshold that has to be exceeded
BatchDueLate(count) == count > BatchSize

\* line 115
BatchDue(count) == count >= BatchSize

\* on_keystroke, lines 114-116
BatchCheck(t) ==
    /\ at[t].in = "batch_check"
    /\ IF BatchDue(keystroke_count_since_save)
       THEN at' = [at EXCEPT ![t].in = "perform_save", ![t].save_type = "batch"]
       ELSE Goto(t, "idle")
    /\ UNCHANGED <<StoreVars, LoggerVars, is_running, idle_timer, continuous_session_start,
                   keystroke_count_since_save, timers>>

\* the delay of a waiting timer is over: its thread calls the callback
TimerFires(i) ==
    /\ i \in DOMAIN timers
    /\ timers[i] = "waiting"
    /\ timers' = [timers EXCEPT ![i] = "running"]
    /\ at' = [at EXCEPT ![TimerThread(i)] =
                 [Outside EXCEPT !.in = "idle_callback", !.save_type = "idle"]]
    /\ UNCHANGED <<StoreVars, LoggerVars, is_running, idle_timer, continuous_session_start,
                   keystroke_count_since_save>>

\* _idle_save_callback, lines 134-135
IdleCallbackCheck(i) ==
    /\ i \in DOMAIN timers
    /\ at[TimerThread(i)].in = "idle_callback"
    /\ IF is_running /\ keystroke_count_since_save > 0
       THEN Goto(TimerThread(i), "perform_save")
       ELSE Goto(TimerThread(i), "idle_finally")
    /\ UNCHANGED <<StoreVars, LoggerVars, is_running, idle_timer, continuous_session_start,
                   keystroke_count_since_save, timers>>

\* _idle_save_callback, lines 139-141, and the end of the timer's thread
IdleCallbackFinally(i) ==
    /\ i \in DOMAIN timers
    /\ at[TimerThread(i)].in = "idle_finally"
    /\ idle_timer' = NoTimer
    /\ timers' = [timers EXCEPT ![i] = "finished"]
    /\ Goto(TimerThread(i), "idle")
    /\ UNCHANGED <<StoreVars, LoggerVars, is_running, continuous_session_start,
                   keystroke_count_since_save>>

\* a second passes
Tick ==
    /\ now < MaxTime
    /\ now' = now + 1
    /\ UNCHANGED <<heap, data, snap, lock, pc, local, ret, primary, temp,
                   backups, hist, SchedVars, LoggerVars>>

-----------------------------------------------------------------------------

\* what the capture source may pass for one key press
KeyEvents == KeyCodes \X Modifiers \X PreviousKeys

\* the events of the runs that go through the file system: each creates
\* every kind of entry a document can hold
FewKeyEvents == {<<"65", "ctrl", PyStr("66")>>}
FewSequenceInputs == {<<<<"65", "66">>, "bigrams">>}

RecordIn(t, keyEvents, sequenceInputs, maxEvents) ==
    /\ hist.events < maxEvents
    /\ \/ \E e \in keyEvents :
             UpdateKeyStatisticsCall(t, e[1], KeyNameOf(e[1]), e[2], e[3])
       \/ \E in \in sequenceInputs :
             UpdateSequenceStatisticsCall(t, in[1], in[2])
    /\ UNCHANGED <<SchedVars, LoggerVars>>

\* The store in memory: updates and snapshots
NextMem ==
    \/ \E t \in Threads : RecordIn(t, KeyEvents, SequenceInputs, MaxEvents)
    \/ \E t \in Threads : GetStatisticsCall(t)
    \/ DayPasses

SpecMem == Init /\ [][NextMem]_vars

\* The store fed with sequences of keys whose codes differ in length: Tab (9),
\* F2 (113), Win (91) and Enter (13)
MaxCalls == 3
SequenceCodes == {"9", "113", "91", "13"}

SequenceCalls ==
    {<<<<a, b>>, "bigrams">> : a \in SequenceCodes, b \in SequenceCodes}
    \cup {<<<<a, b, a>>, "trigrams">> : a \in {"9", "113"}, b \in {"9", "113"}}

\* The Windows key: Key.cmd and Key.cmd_l have the code 91 (VK_CODE_MAP) and
\* the names Win and Left Win (KEY_NAME_MAP); here the left one is pressed
\* after key 65 and the other one as the first key
WinKeyEvents ==
    {<<"91", "Win", "win", PyNone>>, <<"91", "Left Win", "win", PyStr("65")>>}

RecordWinKey(t) ==
    /\ hist.events < MaxEvents
    /\ \E e \in WinKeyEvents : UpdateKeyStatisticsCall(t, e[1], e[2], e[3], e[4])
    /\ UNCHANGED <<SchedVars, LoggerVars>>

\* The store fed with key presses of every kind, and one sequence
NextKeys ==
    \/ \E t \in Threads : RecordIn(t, KeyEvents, FewSequenceInputs, MaxEvents)
    \/ \E t \in Threads : RecordWinKey(t)

SpecKeys == Init /\ [][NextKeys]_vars

NextSeq ==
    \E t \in Threads : RecordIn(t, FewKeyEvents, SequenceCalls, MaxCalls)

SpecSeq == Init /\ [][NextSeq]_vars

\* load_data on the files a directory may hold when it is called: a store
\* with a document in memory, any primary file, and no snapshot, a good one,
\* one of a corrupt primary file, or one that was cut short
LoadPrimaries ==
    {Absent, EmptyFile, Partial, Garbage, Text(JsonOfEmpty),
     Text(JsonDump(StaleDocument)), Text(NullTotalJson), Text(MissingKeyJson)}

LoadBackups ==
    {{}} \cup
    {{[name |-> 0, mtime |-> 0, content |-> c]} :
        c \in {Gzip(Text(JsonDump(StaleDocument))), Gzip(Garbage), Partial}}

InitLoad ==
    /\ \E doc \in {EmptyDocument, StaleDocument} :
          LET m == Allocate(<<>>, {}, doc) IN
             /\ heap = m.heap
             /\ data = m.top
    /\ snap = NoSnap
    /\ lock = NoThread
    /\ pc = [t \in Threads |-> "idle"]
    /\ local = [t \in Threads |-> NoLocal]
    /\ ret = [t \in Threads |-> [op |-> "init", ok |-> TRUE, failed |-> NoFailure]]
    /\ primary \in LoadPrimaries
    /\ temp = Absent
    /\ backups \in LoadBackups
    /\ now = 0
    /\ hist = [events |-> 0, env |-> 0, os |-> "posix", saved |-> NotSaved,
               calls |-> EmptyDict]
    /\ SchedInit(Threads)
    /\ LoggerInit

NextLoad ==
    \/ \E t \in Threads : RecordIn(t, FewKeyEvents, FewSequenceInputs, MaxRecorded)
    \/ \E t \in Threads : LoadCall(t)
    \/ \E t \in Threads : LoadStep(t)

SpecLoad == InitLoad /\ [][NextLoad]_vars

\* The store and its files
Next ==
    \/ \E t \in Threads : RecordIn(t, FewKeyEvents, FewSequenceInputs, MaxRecorded)
    \/ \E t \in Threads : \E cb \in BOOLEAN : SaveDataCall(t, cb)
    \/ \E t \in Threads : SaveStep(t)
    \/ \E t \in Threads : LoadCall(t)
    \/ \E t \in Threads : LoadStep(t)
    \/ \E t \in Threads : Construct(t)
    \/ Tamper

Spec == Init /\ [][Next]_vars

\* the capture thread and the thread of the command line, which reads
\* statistics for the display and saves
CaptureThread == "main"
ControlThread == "ctl"
StoreThreads == {CaptureThread, ControlThread}

\* the capture thread records a key press while another thread works on the
\* store
RecordConcurrently(t) ==
    /\ \/ /\ hist.events < MaxRecorded
          /\ \E e \in FewKeyEvents :
                UpdateKeyStatisticsEnter(t, e[1], KeyNameOf(e[1]), e[2], e[3])
       \/ UpdateKeyStatisticsFinish(t)
    /\ UNCHANGED <<SchedVars, LoggerVars>>

\* The store used by two threads
NextThreads ==
    \/ RecordConcurrently(CaptureThread)
    \/ GetStatisticsCall(ControlThread)
    \/ \E cb \in BOOLEAN : SaveDataCall(ControlThread, cb)
    \/ SaveStep(ControlThread)

InitThreads == StoreInit(StoreThreads) /\ SchedInit(StoreThreads) /\ LoggerInit

SpecThreads == InitThreads /\ [][NextThreads]_vars

RECURSIVE Range(_)
Range(seq) == IF seq = <<>> THEN {} ELSE {Head(seq)} \cup Range(Tail(seq))

SchedThreads == {CaptureThread, ControlThread} \cup Range(TimerNames)

MaxNotified == 2    \* key presses in a run with the SaveManager

\* the steps of the SaveManager methods a thread is in
SchedStep(t) ==
    \/ StopCancel(t)
    \/ PerformSaveSkip(t)
    \/ PerformSaveCheck(t)
    \/ PerformSaveCall(t)
    \/ PerformSaveReturn(t)
    \/ OnKeystrokeEnter(t)
    \/ OnKeystrokeCount(t)
    \/ ScheduleIdleSave(t)
    \/ ManageContinuous(t)
    \/ ContinuousRebase(t)
    \/ BatchCheck(t)

TimerStep(i) == TimerFires(i) \/ IdleCallbackCheck(i) \/ IdleCallbackFinally(i)

StoreStep(t) == SaveStep(t)

\* The store, its SaveManager, the capture thread, the command thread and
\* the timers. The SaveManager is started before the first key press is
\* captured; it may be stopped at any time.
NextSched ==
    \/ /\ hist.events < MaxNotified
       /\ \E e \in FewKeyEvents : RecordEvent(CaptureThread, e)
    \/ hist.events = 0 /\ Start(ControlThread)
    \/ StopEnter(ControlThread)
    \/ \E t \in SchedThreads : SchedStep(t)
    \/ \E i \in 1..Len(TimerNames) : TimerStep(i)
    \/ \E t \in SchedThreads : StoreStep(t)
    \/ Tick

InitSched == StoreInit(SchedThreads) /\ SchedInit(SchedThreads) /\ LoggerInit

(* KeyboardLogger._on_key_press (src/src/logger.py) *)

\* the keys pressed: the letters a and b, and a key VK_CODE_MAP does not have
PressedKeys == {"a", "b", "other"}

\* _get_key_code, lines 318-328: VK_CODE_MAP.get(key.char.lower())
GetKeyCode(key) ==
    IF key = "a" THEN PyStr("65") ELSE IF key = "b" THEN PyStr("66") ELSE PyNone

\* the methods ConfigManager defines (config.py, lines 97-286)
ConfigMethods ==
    {"load_config", "save_config", "get", "set", "get_data_file_path",
     "get_backup_interval", "get_save_interval", "get_idle_save_delay",
     "get_continuous_save_interval", "get_keystroke_batch_save",
     "is_auto_save_enabled", "get_display_refresh_interval",
     "is_color_output_enabled", "is_realtime_display_enabled",
     "get_max_display_keys", "is_modifier_tracking_enabled", "get_log_level",
     "validate_config", "reset_to_default", "export_config", "import_config"}

\* DEFAULT_CONFIG["analysis"] (config.py, lines 37-39) and
\* DEFAULT_CONFIG["logging"]["auto_save"] (line 21)
AnalysisConfig == {"track_modifiers"}
AutoSaveEnabled == TRUE

\* self.config.is_sequence_tracking_enabled() (logger.py, line 348): calling
\* a method the object does not have raises AttributeError
SequenceAnalysisRaises == "is_sequence_tracking_enabled" \notin ConfigMethods

\* lines 221-243: the key code and the name are looked up (a key without a
\* code ends the handler, line 232), no modifier is held, and the store
\* records the key with the logger's previous_key
OnKeyPress(t, key) ==
    /\ at[t].in = "idle"
    /\ ~IsNone(GetKeyCode(key))
    /\ LET key_code == GetKeyCode(key).val IN
          /\ UpdateKeyStatisticsCall(t, key_code, KeyNameOf(key_code),
                                     GetModifierCombination({}), logger_previous_key)
          /\ at' = [at EXCEPT ![t] = [Outside EXCEPT !.in = "update_sequence_analysis",
                                                      !.key_code = key_code]]
    /\ UNCHANGED <<LoggerVars, is_running, idle_timer, continuous_session_start,
                   keystroke_count_since_save, timers>>

\* deque.append on the tail that is read (the last three key codes)
Latest(seq) == IF Len(seq) > 3 THEN SubSeq(seq, Len(seq) - 2, Len(seq)) ELSE seq

\* lines 351-361: key_sequence and the bigram and trigram tables
TrackedSequences(sq, ks, seq) ==
    LET bigrams == IF "track_bigrams" \in AnalysisConfig /\ Len(seq) >= 2
                   THEN UpdateKeySequences(sq, ks, SubSeq(seq, Len(seq) - 1, Len(seq)),
                                           "bigrams")
                   ELSE sq
    IN  IF "track_trigrams" \in AnalysisConfig /\ Len(seq) >= 3
        THEN UpdateKeySequences(bigrams, ks, SubSeq(seq, Len(seq) - 2, Len(seq)),
                                "trigrams")
        ELSE bigrams

\* lines 246-270, the rest of the handler: _update_sequence_analysis, then
\* session_stats (display only), previous_key, and on_statistics_update,
\* which is KeyboardMonitor._on_statistics_update (keyboard_monitor.py, lines
\* 451-455). An exception anywhere ends the handler in line 269.
OnKeyPressRest(t) ==
    /\ at[t].in = "update_sequence_analysis"
    /\ pc[t] = "idle"
    /\ IF SequenceAnalysisRaises
       THEN /\ Goto(t, "idle")
            /\ UNCHANGED <<LoggerVars, heap>>
       ELSE /\ key_sequence' = Latest(Append(key_sequence, at[t].key_code))
            /\ heap' = [heap EXCEPT
                   ![data.key_sequences] =
                       TrackedSequences(@, heap[data.key_statistics],
                                        Append(key_sequence, at[t].key_code))]
            /\ logger_previous_key' = PyStr(at[t].key_code)
            /\ IF AutoSaveEnabled
               THEN at' = [at EXCEPT ![t] = [Outside EXCEPT !.in = "on_keystroke"]]
               ELSE Goto(t, "idle")
    /\ UNCHANGED <<data, snap, lock, pc, local, ret, primary, temp, backups, now,
                   hist>>
    /\ UNCHANGED <<is_running, idle_timer, continuous_session_start,
                   keystroke_count_since_save, timers>>

\* The logger's handler on the capture thread, with the SaveManager started
\* and stopped by the command thread
NextCapture ==
    \/ /\ hist.events < MaxNotified
       /\ \E key \in PressedKeys : OnKeyPress(CaptureThread, key)
    \/ OnKeyPressRest(CaptureThread)
    \/ hist.events = 0 /\ Start(ControlThread)
    \/ StopEnter(ControlThread)
    \/ StopCancel(ControlThread)
    \/ PerformSaveCheck(ControlThread)
    \/ PerformSaveCall(ControlThread)
    \/ PerformSaveReturn(ControlThread)
    \/ \E t \in SchedThreads : StoreStep(t)

SpecCapture == InitSched /\ [][NextCapture]_vars

\* The store and its SaveManager with a caller of force_save, in the runs in
\* which no timer expires
NextForce ==
    \/ /\ hist.events < MaxNotified
       /\ \E e \in FewKeyEvents : RecordEvent(CaptureThread, e)
    \/ hist.events = 0 /\ Start(ControlThread)
    \/ StopEnter(ControlThread)
    \/ ForceSave(ControlThread)
    \/ \E t \in SchedThreads : SchedStep(t)
    \/ \E t \in SchedThreads : StoreStep(t)
    \/ Tick

SpecForce == InitSched /\ [][NextForce]_vars

SpecSched == InitSched /\ [][NextSched]_vars

\* the seconds of a run that makes KeepCount + 3 snapshots
LastSecond == KeepCount + 3

\* a second passes between two calls. The runs are those in which a
\* snapshot is written in every second, once the first one exists: the
\* caller is at least as fast as the timestamps in the snapshots' names.
SecondPasses ==
    /\ now < LastSecond
    /\ backups # {} => \E b \in backups : b.mtime = now
    /\ \A t \in Threads : pc[t] = "idle"
    /\ now' = now + 1
    /\ UNCHANGED <<MemVars, lock, pc, local, ret, FileVars, hist, SchedVars, LoggerVars>>

\* the snapshots thread t has had written
BackupsMade(t) == at[t].saves

\* save_data(create_backup=True), as stop_logging calls it (logger.py, line
\* 212); the snapshots written are counted
BackupSave(t) ==
    /\ BackupsMade(t) < KeepCount + 3
    /\ SaveCall(t, TRUE)
    /\ at' = [at EXCEPT ![t].saves =
                 IF Exists(primary) /\ local'[t].failed = NoFailure
                 THEN @ + 1 ELSE @]
    /\ UNCHANGED <<LoggerVars, is_running, idle_timer, continuous_session_start,
                   keystroke_count_since_save, timers>>

\* The store saved with a backup again and again
NextBackup ==
    \/ \E t \in Threads : BackupSave(t)
    \/ \E t \in Threads : SaveStep(t)
    \/ SecondPasses

SpecBackup == Init /\ [][NextBackup]_vars

\* the key press that precedes each save of the backup test
RecordBeforeSave(t) ==
    /\ hist.events = 0 \/ ret[t].op = "save_data"
    /\ RecordIn(t, FewKeyEvents, {}, KeepCount)

\* save_data(create_backup=True) after the key press
SaveAfterRecord(t) ==
    /\ ret[t].op = "update_key_statistics"
    /\ SaveDataCall(t, TRUE)

\* A new store on an empty directory: a key press, a save with a backup, and
\* so on, while the seconds pass
NextSnapshots ==
    \/ \E t \in Threads : RecordBeforeSave(t)
    \/ \E t \in Threads : SaveAfterRecord(t)
    \/ \E t \in Threads : SaveStep(t)
    \/ SecondPasses

SpecSnapshots == Init /\ [][NextSnapshots]_vars

\* a method that has been called goes on while it can take a step
FairSpec ==
    Spec /\ \A t \in Threads : WF_vars(SaveStep(t)) /\ WF_vars(LoadStep(t))

-----------------------------------------------------------------------------
(* The queries: DataStore.get_top_keys, StatisticsAnalyzer                   *)
(* (src/src/analyzer.py) and DataAnalyzer                                    *)
(* (src/gui/components/analytics/data_analyzer.py), applied to a document    *)
(* that the store adopted from its file.                                     *)

MaxCount == 3       \* greatest count of a key in a document given to a query
MaxLimit == 3       \* greatest limit given to a query

QueryKeyCodes == {"65", "66", "67"}
QueryKeyNameOf(k) == IF k = "65" THEN "A" ELSE IF k = "66" THEN "B" ELSE "C"

\* a dictionary iterates in the order of insertion, which the document does
\* not hold: any order of its keys
Orders(S) ==
    {s \in [1..Cardinality(S) -> S] :
        \A i, j \in 1..Cardinality(S) : i # j => s[i] # s[j]}

RECURSIVE SumOf(_)
\* the sum of the values of a function
SumOf(f) ==
    IF DOMAIN f = {} THEN 0
    ELSE LET x == CHOOSE y \in DOMAIN f : TRUE
         IN  f[x] + SumOf([y \in DOMAIN f \ {x} |-> f[y]])

\* a list that is not sorted at all
Unsorted(items) == items

RECURSIVE SortByCountDescending(_)
\* items.sort(key=lambda x: x["count"], reverse=True): stable, so that items
\* of equal count keep their order
SortByCountDescending(items) ==
    IF Len(items) = 0 THEN <<>>
    ELSE LET n == Len(items)
             item == items[n]
             sorted == SortByCountDescending(SubSeq(items, 1, n - 1))
             ahead == Cardinality({i \in 1..(n - 1) : sorted[i].count >= item.count})
         IN  SubSeq(sorted, 1, ahead) \o <<item>> \o SubSeq(sorted, ahead + 1, n - 1)

\* items[:limit]
Slice(items, limit) ==
    IF limit >= 0
    THEN SubSeq(items, 1, IF limit < Len(items) THEN limit ELSE Len(items))
    ELSE SubSeq(items, 1, IF Len(items) + limit > 0 THEN Len(items) + limit ELSE 0)

\* DataStore.get_top_keys, lines 235-248; `order` is the order of
\* self.data["key_statistics"].items()
GetTopKeys(ks, order, limit) ==
    LET key_stats == [i \in 1..Len(order) |->
                         [key_code |-> order[i],
                          key_name |-> ks[order[i]].key_name,
                          count |-> ks[order[i]].count]]
    IN  Slice(SortByCountDescending(key_stats), limit)

\* a quotient of two integers, kept as the pair it is computed from
Quotient(num, den) == [num |-> num, den |-> den]
Zero == Quotient(0, 1)

\* (count / total_keystrokes * 100) if total_keystrokes > 0 else 0
Percentage(count, total_keystrokes) ==
    IF total_keystrokes > 0 THEN Quotient(count * 100, total_keystrokes) ELSE Zero

\* StatisticsAnalyzer.get_top_keys_analysis, lines 80-95, without the
\* progress bar
GetTopKeysAnalysis(doc, order, limit) ==
    LET top_keys == GetTopKeys(doc.key_statistics, order, limit)
        total_keystrokes == doc.total_statistics.total_keystrokes.val
    IN  [i \in 1..Len(top_keys) |->
            [key_code |-> top_keys[i].key_code,
             key_name |-> top_keys[i].key_name,
             count |-> top_keys[i].count,
             percentage |-> Percentage(top_keys[i].count, total_keystrokes)]]

\* a query returns `value`, or raises `failed` and returns nothing: nothing
\* but the thread's return value changes. A query leaves the document as it
\* is, so that a later query is answered like a first one: a run asks one.
Answer(t, op, args, value, failed) ==
    /\ pc[t] = "idle"
    /\ lock = NoThread
    /\ ret[t].op = "init"
    /\ ret' = [ret EXCEPT ![t] =
           [op |-> op, ok |-> failed = NoFailure, failed |-> failed,
            args |-> args,
            value |-> IF failed = NoFailure THEN value ELSE PyNone]]
    /\ UNCHANGED <<MemVars, lock, pc, local, FileVars, now, hist, SchedVars, LoggerVars>>

GetTopKeysAnalysisCall(t, limit) ==
    \E order \in Orders(DOMAIN Document.key_statistics) :
        Answer(t, "get_top_keys_analysis", <<limit>>,
               GetTopKeysAnalysis(Document, order, limit), NoFailure)

\* the key entries of a document in which every key was pressed without
\* modifiers and as the first key
CountedKeys ==
    UNION {{[k \in S |->
                [key_name |-> QueryKeyNameOf(k), count |-> c[k],
                 modifier_combinations |->
                     [x \in {"none"} |-> [count |-> c[k], preceded_by |-> EmptyDict]]]]
            : c \in [S -> 1..MaxCount]} : S \in SUBSET QueryKeyCodes}

\* documents for the ranking of keys: the total is any number, not only the
\* sum of the counts
TopKeysDocuments ==
    {[total_statistics |->
          [EmptyTotalStatistics EXCEPT !.total_keystrokes = PyInt(n)],
      key_statistics |-> ks,
      key_sequences |-> EmptyKeySequences]
     : n \in 0..(MaxCount + 1), ks \in CountedKeys}

\* a / b, which raises ZeroDivisionError when b is 0
Divide(a, b) == Quotient(a, b)
DividesByZero(q) == q.den = 0

\* an average that is computed whatever the number of days
AveragePerDayUnguarded(total_keystrokes, days) == Divide(total_keystrokes, days)

\* total_stats['total_keystrokes'] / days if days > 0 else 0
AveragePerDay(total_keystrokes, days) ==
    IF days > 0 THEN Divide(total_keystrokes, days) ELSE Zero

\* datetime.fromisoformat(d), as the number of the day
FromIsoFormat(d) == d.val

\* bool(x) of a date string or None
Truthy(x) == ~IsNone(x)

\* StatisticsAnalyzer.get_basic_statistics, lines 43-68
GetBasicStatistics(doc) ==
    LET total_stats == doc.total_statistics
        total_keystrokes == total_stats.total_keystrokes.val
        days == FromIsoFormat(total_stats.last_record_date)
                    - FromIsoFormat(total_stats.first_record_date) + 1
        dated == Truthy(total_stats.first_record_date)
                     /\ Truthy(total_stats.last_record_date)
        average == IF dated THEN AveragePerDay(total_keystrokes, days) ELSE Zero
    IN  [total_keystrokes |-> total_keystrokes,
         first_record_date |-> total_stats.first_record_date,
         last_record_date |-> total_stats.last_record_date,
         unique_keys |-> Cardinality(DOMAIN doc.key_statistics),
         version |-> total_stats.version,
         recording_days |-> IF dated THEN days ELSE 0,
         average_keystrokes_per_day |-> average]

GetBasicStatisticsCall(t) ==
    LET basic_stats == GetBasicStatistics(Document)
    IN  Answer(t, "get_basic_statistics", <<>>, basic_stats,
               IF DividesByZero(basic_stats.average_keystrokes_per_day)
               THEN "ZeroDivisionError" ELSE NoFailure)

\* "記録なし": nothing recorded
NoRecord == "no record"

\* DataAnalyzer.calculate_basic_stats, lines 68-98, on the file that holds
\* `doc`
CalculateBasicStats(doc) ==
    LET total_stats == doc.total_statistics
        first_date_str == total_stats.first_record_date
        last_date_str == total_stats.last_record_date
    IN  [total_keystrokes |-> total_stats.total_keystrokes.val,
         recording_period |->
             IF Truthy(first_date_str) /\ Truthy(last_date_str)
             THEN <<FromIsoFormat(first_date_str), FromIsoFormat(last_date_str)>>
             ELSE NoRecord]

CalculateBasicStatsCall(t) ==
    Answer(t, "calculate_basic_stats", <<>>, CalculateBasicStats(Document),
           NoFailure)

\* documents for the basic statistics: any total, and any two dates or none,
\* also a last date before the first one (a clock that was set back)
RecordDates == {PyNone} \cup {Today(d * SecondsPerDay) : d \in 0..MaxDays}

BasicDocuments ==
    {[total_statistics |->
          [EmptyTotalStatistics EXCEPT !.total_keystrokes = PyInt(n),
                                       !.first_record_date = first,
                                       !.last_record_date = last],
      key_statistics |-> ks,
      key_sequences |-> EmptyKeySequences]
     : n \in 0..MaxCount, first \in RecordDates, last \in RecordDates,
       ks \in {c \in CountedKeys : DOMAIN c \subseteq {"65"}}}

\* the names the capture path gives to held modifiers (_get_modifier_name)
\* that occur in the documents given to the queries
HeldModifierNames == {"ctrl", "shift", "win"}

\* the ways of writing one or more of them joined by "+"
Spellings ==
    {q \in UNION {[1..n -> HeldModifierNames] : n \in 1..Cardinality(HeldModifierNames)} :
        \A i, j \in DOMAIN q : i # j => q[i] # q[j]}

\* modifier.split("+")
Split(modifier) ==
    IF modifier = "none" THEN <<"none">>
    ELSE CHOOSE q \in Spellings : JoinPlus(q) = modifier

\* "+" in modifier
HasPlus(modifier) == Len(Split(modifier)) > 1

\* the keys of modifier_counts
UsageNames == {"none", "shift", "ctrl", "alt", "super"}

\* _add_compound_modifier_counts, lines 735-745: what one part of a compound
\* adds to modifier_counts[b]
PartAdds(b, mod, count) ==
    IF mod \in UsageNames THEN (IF mod = b THEN count ELSE 0)
    ELSE IF mod = "win" THEN (IF b = "super" THEN count ELSE 0)
    ELSE 0

RECURSIVE CompoundAdds(_, _, _)
CompoundAdds(b, modifiers, count) ==
    IF Len(modifiers) = 0 THEN 0
    ELSE PartAdds(b, Head(modifiers), count) + CompoundAdds(b, Tail(modifiers), count)

\* lines 178-184: what one modifier entry adds to modifier_counts[b]
EntryAdds(b, modifier, count) ==
    IF modifier \in UsageNames THEN (IF modifier = b THEN count ELSE 0)
    ELSE IF HasPlus(modifier) THEN CompoundAdds(b, Split(modifier), count)
    ELSE 0

\* the modifier entries of all keys, as pairs of key code and combination
ModifierEntries(ks) ==
    UNION {{<<k, m>> : m \in DOMAIN ks[k].modifier_combinations} : k \in DOMAIN ks}

RECURSIVE ModifierCount(_, _, _)
\* lines 175-184: the loops over keys and modifier entries, for one name
ModifierCount(b, ks, entries) ==
    IF entries = {} THEN 0
    ELSE LET e == CHOOSE x \in entries : TRUE
         IN  EntryAdds(b, e[2], ks[e[1]].modifier_combinations[e[2]].count)
                 + ModifierCount(b, ks, entries \ {e})

\* DataAnalyzer.analyze_modifier_usage, lines 155-204: "modifier_usage"
AnalyzeModifierUsage(doc) ==
    LET key_stats == doc.key_statistics
    IN  IF key_stats = EmptyDict THEN [b \in UsageNames |-> 0]
        ELSE [b \in UsageNames |->
                 ModifierCount(b, key_stats, ModifierEntries(key_stats))]

AnalyzeModifierUsageCall(t) ==
    Answer(t, "analyze_modifier_usage", <<>>, AnalyzeModifierUsage(Document),
           NoFailure)

\* the combinations written by the capture path that occur in the documents
\* given to the queries
UsageCombinations ==
    {GetModifierCombination(p) :
        p \in {{}, {"ctrl"}, {"win"}, {"ctrl", "shift"}, {"ctrl", "win"}}}

\* the modifier entries of one key: up to two combinations, nothing before
ModifierTables ==
    UNION {[S -> {[count |-> c, preceded_by |-> EmptyDict] : c \in 1..MaxCount}]
           : S \in {T \in SUBSET UsageCombinations : Cardinality(T) <= 2}}

RECURSIVE SumOfModifierCounts(_)
SumOfModifierCounts(mc) ==
    IF DOMAIN mc = {} THEN 0
    ELSE LET m == CHOOSE x \in DOMAIN mc : TRUE
         IN  mc[m].count + SumOfModifierCounts([x \in DOMAIN mc \ {m} |-> mc[x]])

\* a key entry as update_key_statistics leaves it: its count is the sum of
\* the counts of its modifier entries
KeyEntryWith(k, mc) ==
    [key_name |-> QueryKeyNameOf(k), count |-> SumOfModifierCounts(mc),
     modifier_combinations |-> mc]

\* documents for the use of modifiers: key 65 with up to two combinations
\* and, in some, key 66 with one
UsageDocuments ==
    {[total_statistics |->
          [EmptyTotalStatistics EXCEPT !.total_keystrokes =
               PyInt(SumOfModifierCounts(a) + SumOfModifierCounts(b))],
      key_statistics |->
          [k \in {"65"} \cup (IF b = EmptyDict THEN {} ELSE {"66"}) |->
              KeyEntryWith(k, IF k = "65" THEN a ELSE b)],
      key_sequences |-> EmptyKeySequences]
     : a \in ModifierTables \ {EmptyDict},
       b \in {x \in ModifierTables : Cardinality(DOMAIN x) <= 1}}

\* DataAnalyzer._get_key_name_by_code, lines 357-373, for the codes of
\* letters
GetKeyNameByCode(key_code, key_stats) ==
    IF key_code \in DOMAIN key_stats THEN key_stats[key_code].key_name
    ELSE "Key" \o key_code

\* key_data.get("modifier_combinations", {}).get("none", {})
\*         .get("preceded_by", {})
PrecededByNone(key_data) ==
    IF "none" \in DOMAIN key_data.modifier_combinations
    THEN key_data.modifier_combinations["none"].preceded_by
    ELSE EmptyDict

\* DataAnalyzer._get_top_predecessors, lines 306-328; `order` is the order of
\* preceded_by.items()
GetTopPredecessors(target_key_code, key_stats, top_n, order) ==
    IF target_key_code \notin DOMAIN key_stats THEN <<>>
    ELSE LET preceded_by == PrecededByNone(key_stats[target_key_code])
             predecessors ==
                 [i \in 1..Len(order) |->
                     [key_name |-> GetKeyNameByCode(order[i], key_stats),
                      count |-> preceded_by[order[i]]]]
         IN  IF preceded_by = EmptyDict THEN <<>>
             ELSE Slice(SortByCountDescending(predecessors), top_n)

GetTopPredecessorsCall(t, target_key_code, top_n) ==
    LET key_stats == Document.key_statistics
        keys == IF target_key_code \in DOMAIN key_stats
                THEN DOMAIN PrecededByNone(key_stats[target_key_code]) ELSE {}
    IN  \E order \in Orders(keys) :
            Answer(t, "get_top_predecessors", <<target_key_code, top_n>>,
                   GetTopPredecessors(target_key_code, key_stats, top_n, order),
                   NoFailure)

\* successors[key_name] = count, on the dictionary kept as the list of its
\* items
SetItem(items, key_name, count) ==
    IF \E i \in 1..Len(items) : items[i].key_name = key_name
    THEN [i \in 1..Len(items) |->
             IF items[i].key_name = key_name
             THEN [key_name |-> key_name, count |-> count] ELSE items[i]]
    ELSE Append(items, [key_name |-> key_name, count |-> count])

RECURSIVE ScanSuccessors(_, _, _)
\* lines 334-344: the scan of the keys, in the order of key_stats.items()
ScanSuccessors(target_key_code, key_stats, order) ==
    IF Len(order) = 0 THEN <<>>
    ELSE LET key_code == order[Len(order)]
             successors == ScanSuccessors(target_key_code, key_stats,
                                          SubSeq(order, 1, Len(order) - 1))
             preceded_by == PrecededByNone(key_stats[key_code])
         IN  IF target_key_code \in DOMAIN preceded_by
             THEN SetItem(successors, key_stats[key_code].key_name,
                          preceded_by[target_key_code])
             ELSE successors

\* DataAnalyzer._get_top_successors, lines 330-355
GetTopSuccessors(target_key_code, key_stats, top_n, order) ==
    Slice(SortByCountDescending(
              ScanSuccessors(target_key_code, key_stats, order)), top_n)

GetTopSuccessorsCall(t, target_key_code, top_n) ==
    \E order \in Orders(DOMAIN Document.key_statistics) :
        Answer(t, "get_top_successors", <<target_key_code, top_n>>,
               GetTopSuccessors(target_key_code, Document.key_statistics,
                                top_n, order),
               NoFailure)

\* What was recorded about neighbours: how often key k was pressed with the
\* combination m after the key p, or as the first key (p None)
Pressings == KeyCodes \X {"none", "ctrl"} \X PreviousKeys

Recordings ==
    UNION {[T -> 1..MaxCount] : T \in {U \in SUBSET Pressings : Cardinality(U) <= 2}}

\* the modifier entry of key k and combination m after the recording f
RecordedModifierEntry(f, k, m) ==
    LET mine == {e \in DOMAIN f : e[1] = k /\ e[2] = m}
    IN  [count |-> SumOf([e \in mine |-> f[e]]),
         preceded_by |->
             [p \in {e[3].val : e \in {x \in mine : ~IsNone(x[3])}} |->
                 f[<<k, m, PyStr(p)>>]]]

\* the key entry of key k after the recording f; a key that f does not
\* mention was pressed once, as the first key
RecordedKeyEntry(f, k, key_name) ==
    LET combinations == {e[2] : e \in {x \in DOMAIN f : x[1] = k}}
        mc == IF combinations = {}
              THEN [m \in {"none"} |-> [count |-> 1, preceded_by |-> EmptyDict]]
              ELSE [m \in combinations |-> RecordedModifierEntry(f, k, m)]
    IN  [key_name |-> key_name, count |-> SumOfModifierCounts(mc),
         modifier_combinations |-> mc]

\* documents for the neighbours of keys: both keys, with their own names or
\* with one name for both (a file can give any name to a key)
NeighbourDocuments ==
    {LET ks == [k \in KeyCodes |->
                   RecordedKeyEntry(f, k, IF same_name THEN "A" ELSE KeyNameOf(k))]
     IN  [total_statistics |->
              [EmptyTotalStatistics EXCEPT !.total_keystrokes =
                   PyInt(SumOf([k \in KeyCodes |-> ks[k].count]))],
          key_statistics |-> ks,
          key_sequences |-> EmptyKeySequences]
     : f \in Recordings, same_name \in BOOLEAN}

QueryDocuments ==
    TopKeysDocuments \cup BasicDocuments \cup UsageDocuments \cup NeighbourDocuments

\* a store whose load_data adopted `doc` from the primary file
StoreHolding(threads, doc) ==
    /\ LET m == Allocate(<<>>, {}, doc) IN
          /\ heap = m.heap
          /\ data = m.top
    /\ snap = NoSnap
    /\ lock = NoThread
    /\ pc = [t \in threads |-> "idle"]
    /\ local = [t \in threads |-> NoLocal]
    /\ ret = [t \in threads |-> [op |-> "init", ok |-> TRUE, failed |-> NoFailure]]
    /\ primary = Text(JsonDump(doc))
    /\ temp = Absent
    /\ backups = {}
    /\ now = 0
    /\ hist = [events |-> 0, env |-> 0, os |-> "posix", saved |-> NotSaved,
               calls |-> EmptyDict]

InitQuery ==
    /\ \E doc \in QueryDocuments : StoreHolding(Threads, doc)
    /\ SchedInit(Threads)
    /\ LoggerInit

NextQuery ==
    \/ \E t \in Threads : \E limit \in 0..MaxLimit : GetTopKeysAnalysisCall(t, limit)
    \/ \E t \in Threads : GetBasicStatisticsCall(t)
    \/ \E t \in Threads : CalculateBasicStatsCall(t)
    \/ \E t \in Threads : AnalyzeModifierUsageCall(t)
    \/ \E t \in Threads : \E k \in QueryKeyCodes : \E top_n \in 0..MaxLimit :
          GetTopPredecessorsCall(t, k, top_n)
    \/ \E t \in Threads : \E k \in QueryKeyCodes : \E top_n \in 0..MaxLimit :
          GetTopSuccessorsCall(t, k, top_n)

SpecQuery == InitQuery /\ [][NextQuery]_vars

-----------------------------------------------------------------------------
(* The claims *)

RECURSIVE SumOfCounts(_)
\* sum(entry["count"] for entry in key_statistics.values())
SumOfCounts(ks) ==
    IF DOMAIN ks = {} THEN 0
    ELSE LET k == CHOOSE x \in DOMAIN ks : TRUE
         IN  ks[k].count + SumOfCounts([x \in (DOMAIN ks) \ {k} |-> ks[x]])

TotalKeystrokes(doc) == doc.total_statistics.total_keystrokes

\* C1: in every state reached from the empty document by recording
\* keystrokes and sequences and taking snapshots, total_keystrokes equals the
\* sum of the counts of all key_statistics entries.
C1_Additivity ==
    /\ TotalKeystrokes(Document).type = "int"
    /\ TotalKeystrokes(Document).val = SumOfCounts(Document.key_statistics)

\* two different keys have been pressed and a snapshot has been taken
C1_Witness ==
    /\ TotalKeystrokes(Document).val = 2
    /\ DOMAIN Document.key_statistics = KeyCodes
    /\ snap # NoSnap

SavePcs == {"save_open", "save_move", "save_copy", "save_copy_write",
            "save_except"}

\* C2 as stated: every step of a save leaves the primary file as it was or
\* makes it the complete new document, so that a reader of the file never
\* sees an empty or partly written document.
C2_AtomicSave ==
    [][\A t \in Threads :
          pc[t] \in SavePcs =>
              \/ primary' = primary
              \/ primary' = Text(JsonDump(Document))]_vars

LoadOps == {"init", "load_data"}

\* C3: after a save that succeeded, a store constructed on the same file
\* holds a document equal to the saved one, whatever was recorded before.
C3_LoadAfterSave ==
    \A t \in Threads :
        /\ pc[t] = "idle"
        /\ ret[t].op = "init"
        /\ ret[t].failed = NoFailure
        /\ hist.saved.valid
        => /\ ret[t].ok
           /\ Document = hist.saved.doc

\* a store constructed after the save of a document with a keystroke or a
\* sequence in it
C3_Witness ==
    \E t \in Threads :
        /\ pc[t] = "idle"
        /\ ret[t].op = "init"
        /\ ret[t].failed = NoFailure
        /\ hist.saved.valid
        /\ hist.saved.doc # EmptyDocument
        /\ hist.events > 0

\* what a save that has returned reports about a failed I/O step
FailedSaveReport(t, failures) ==
    /\ pc'[t] = "idle"
    /\ ret'[t].failed \in failures
    => /\ ret'[t].ok = FALSE
       /\ temp' = Absent

C5_NoSelfWait ==
    \A t \in Threads : pc[t] = "load_lock" => lock # t

\* the latest snapshot has been decompressed over the primary file and
\* load_data has been called again (line 381)
RestoredFromSnapshot(t) ==
    /\ pc[t] = "load_lock"
    /\ local[t].nested
    /\ Adoptable(primary)

\* load_data has reported success with the document of the primary file
ReportsPrimary(t) ==
    /\ pc[t] = "idle"
    /\ ret[t].op \in LoadOps
    /\ ret[t].ok
    /\ Adoptable(primary)
    /\ Document = JsonLoad(primary.json)

\* C6 as stated: once the primary file was found corrupt and the latest
\* snapshot, a valid one, is decompressed over it, load_data goes on to
\* report success with that snapshot's document in memory.
C6_RestoresLatest ==
    \A t \in Threads : RestoredFromSnapshot(t) ~> ReportsPrimary(t)

\* the primary file exists and load_data does not adopt it
Corrupt(f) == Exists(f) /\ ~Adoptable(f)

\* C7: when load_data finds the primary file corrupt and there is no
\* snapshot, it goes to _restore_from_backup, which reports success and
\* leaves the empty document in memory.
C7_CorruptNoBackup ==
    [][\A t \in Threads :
          /\ pc[t] = "load_body" /\ Corrupt(primary) /\ backups = {}
             => pc'[t] = "restore" /\ UNCHANGED <<MemVars, FileVars>>
          /\ pc[t] = "restore" /\ backups = {}
             => /\ pc'[t] = "idle"
                /\ ret'[t].op \in LoadOps
                /\ ret'[t].ok
                /\ Deref(heap', data') = EmptyDocument
                /\ UNCHANGED FileVars]_vars

\* a live store with a recorded event is about to fall back to the empty
\* document: its load_data found a corrupt file and there is no snapshot
C7_Witness ==
    \E t \in Threads :
        /\ pc[t] = "restore"
        /\ Corrupt(primary)
        /\ backups = {}
        /\ Document # EmptyDocument

\* the validation the specification asks for: the required keys, and a
\* total_keystrokes that is a non-negative integer
NonNegativeTotal(d) ==
    /\ TotalKeystrokes(d).type = "int"
    /\ TotalKeystrokes(d).val >= 0

\* C8 as stated: the document in memory always has the required keys and a
\* non-negative integer total_keystrokes, because load_data adopts no other.
C8_AdoptsOnlyValid ==
    \A t \in Threads :
        pc[t] = "idle" => HasRequiredKeys(Document) /\ NonNegativeTotal(Document)

\* C9: when the primary file does not exist, load_data reports success with
\* the empty document in memory, and no file is created or changed (no
\* snapshot is decompressed), whether snapshots exist or not.
C9_AbsentPrimary ==
    [][\A t \in Threads :
          pc[t] = "load_body" /\ ~Exists(primary)
          => /\ pc'[t] = "idle"
             /\ ret'[t].op \in LoadOps
             /\ ret'[t].ok
             /\ Deref(heap', data') = EmptyDocument
             /\ UNCHANGED FileVars]_vars

\* load_data runs on a live store with a recorded event, the primary file is
\* gone and a snapshot exists
C9_Witness ==
    \E t \in Threads :
        /\ pc[t] = "load_body"
        /\ ~Exists(primary)
        /\ backups # {}
        /\ Document # EmptyDocument

\* C10 as stated: what a snapshot returned by get_statistics shows stays
\* what it was, whatever is recorded afterwards.
C10_SnapshotIndependent ==
    [][snap # NoSnap /\ snap' = snap
       => Deref(heap', snap') = Deref(heap, snap)]_vars

\* what total_keystrokes and the key counts of a document say together
Additive(doc) ==
    /\ TotalKeystrokes(doc).type = "int"
    /\ TotalKeystrokes(doc).val = SumOfCounts(doc.key_statistics)

\* C11 as stated: whenever a reader looks into the document it got from
\* get_statistics, it sees the state before or after a whole update, never
\* a total already incremented with a key count not yet incremented.
C11_NoTornRead ==
    snap # NoSnap => Additive(Deref(heap, snap))

\* positions inside the body of a store method, where the lock is held
BodyPcs == SavePcs \cup {"update_key", "load_body", "restore"}

\* what json.load makes of a file, when it is a complete JSON text
Written(f) == IF Parses(f) THEN Additive(JsonLoad(f.json)) ELSE TRUE

\* C12: a thread inside the body of a store method holds the lock, so at
\* most one thread is inside at a time; and every document a save writes,
\* to the temporary or to the primary file, is a state between two whole
\* updates: its total_keystrokes equals the sum of its key counts.
C12_OneAtATime ==
    /\ \A t \in DOMAIN pc : pc[t] \in BodyPcs => lock = t
    /\ Written(temp)
    /\ Written(primary)

\* the saver is inside save_data with the document of a recorded key press
\* written, while the capture thread has nothing half done
C12_Witness ==
    /\ pc[ControlThread] = "save_move"
    /\ Parses(temp)
    /\ TotalKeystrokes(JsonLoad(temp.json)).val > 0
    /\ hist.events > 0


\* the step with which stop() returns
StopReturns(t) ==
    /\ at[t].save_type = "shutdown"
    /\ at[t].in # "idle"
    /\ at'[t].in = "idle"

\* the step with which the save_data called by stop() returns
ShutdownSaveReturns(t) ==
    /\ at[t].save_type = "shutdown"
    /\ at[t].in = "save_data"
    /\ pc[t] # "idle"
    /\ pc'[t] = "idle"

C14_OneSavePerEvent == at[CaptureThread].saves <= 1


ArmedTimers == {i \in DOMAIN timers : Armed(timers[i])}

\* C15: at most one idle timer is armed (started, not cancelled, callback
\* not finished) at any time, and the SaveManager holds the reference to
\* every armed timer: a finishing callback does not drop the reference to a
\* newer one.
C15_OneArmedTimer ==
    /\ Cardinality(ArmedTimers) <= 1
    /\ \A i \in ArmedTimers : idle_timer = i


\* no thread is inside the SaveManager or the store and no timer is left to
\* fire: nothing more happens unless a key is pressed or stop() is called
Quiescent ==
    /\ \A t \in DOMAIN at : at[t].in = "idle" /\ pc[t] = "idle"
    /\ \A i \in DOMAIN timers : timers[i] = "finished"

\* C16: while the SaveManager runs and no save fails, once the idle timers
\* have fired and their callbacks have ended, the document with every
\* recorded key press in it has been saved, also when a key press arrived
\* while an earlier idle save was in flight.
C16_IdleSaveCoversLastEvent ==
    is_running /\ hist.env = 0 /\ hist.events > 0 /\ Quiescent
        => hist.saved.valid /\ hist.saved.doc = Document


\* the step with which thread t leaves position `where` of the SaveManager
Leaves(t, where) == at[t].in = where /\ at'[t].in # where

\* C17: when save_data has reported failure, _perform_save leaves
\* is_running and the unsaved counter as they are; every later key press
\* that finds the SaveManager running makes the counter grow; and an idle
\* expiry on a running SaveManager with a counter above zero, like every
\* trigger reached with a counter above zero, goes on to call save_data.
C17_FailedSaveKeepsGoing ==
    [][\A t \in DOMAIN at :
          /\ Leaves(t, "save_data") /\ ~ret[t].ok
                => /\ is_running' = is_running
                   /\ keystroke_count_since_save' = keystroke_count_since_save
          /\ Leaves(t, "count_up")
                => keystroke_count_since_save' >= keystroke_count_since_save + 1
          /\ Leaves(t, "idle_callback") /\ is_running
                                        /\ keystroke_count_since_save > 0
                => at'[t].in = "perform_save"
          /\ Leaves(t, "perform_save") /\ keystroke_count_since_save > 0
                => at'[t].in = "call_save_data"
          /\ Leaves(t, "call_save_data")
                => at'[t].in = "save_data" /\ at'[t].saves = at[t].saves + 1]_vars

\* after a save has failed, with two unsaved key presses counted, an idle
\* expiry on the running SaveManager saves again
C17_Witness ==
    \E t \in DOMAIN at :
        /\ at[t].in = "save_data"
        /\ at[t].save_type = "idle"
        /\ pc[t] \in SavePcs
        /\ local[t].failed = NoFailure
        /\ hist.env > 0
        /\ is_running
        /\ keystroke_count_since_save = 2

\* C18: when a save triggered by the idle timer, the continuous interval or
\* the batch threshold has succeeded, _perform_save leaves the unsaved
\* counter at zero and the streak origin is set to the time of that save
\* (by the caller, for the continuous path).
C18_RebasedAfterSave ==
    [][\A t \in DOMAIN at :
          Leaves(t, "save_data") /\ ret[t].ok /\ at[t].save_type \in StatKeys
             => /\ keystroke_count_since_save' = 0
                /\ \/ continuous_session_start' = PyInt(now)
                   \/ at'[t].in = "continuous_rebase"]_vars

\* C19: while the SaveManager runs and no save has failed, the unsaved
\* counter is below the batch threshold whenever the capture thread is
\* outside on_keystroke.
C19_BelowBatchSize ==
    is_running /\ hist.env = 0 /\ at[CaptureThread].in = "idle"
        => keystroke_count_since_save < BatchSize

\* on_keystroke is about to return from the successful batch save of the key
\* press that brought the counter to the threshold
C19_Witness ==
    /\ is_running
    /\ hist.env = 0
    /\ at[CaptureThread].in = "save_data"
    /\ at[CaptureThread].save_type = "batch"
    /\ pc[CaptureThread] = "idle"
    /\ ret[CaptureThread].ok
    /\ keystroke_count_since_save = BatchSize

\* stop() has returned (or start() was never called)
Stopped == ~is_running /\ at[ControlThread].in = "idle"

\* C20: once stop() has returned, no thread starts a save_data.
C20_NoSaveAfterStop ==
    [][\A t \in DOMAIN at :
          Leaves(t, "call_save_data") => ~Stopped]_vars


\* the orders in which modifier names can be written
ModifierOrders ==
    {q \in UNION {[1..n -> ModifierNames] : n \in 1..Cardinality(ModifierNames)} :
        \A i, j \in DOMAIN q : i # j => q[i] # q[j]}

\* the set of modifiers a string denotes: modifiers.split('+') as a set
DenotedModifiers(modifiers) ==
    IF modifiers = "none" THEN {}
    ELSE LET q == CHOOSE o \in ModifierOrders : JoinPlus(o) = modifiers
         IN  {q[i] : i \in DOMAIN q}

\* C21: no KeyEntry has two modifier_combinations keys that denote the same
\* set of modifiers: "shift+ctrl" and "ctrl+shift" count into one entry.
C21_CanonicalModifiers ==
    \A k \in DOMAIN Document.key_statistics :
        \A m1, m2 \in DOMAIN Document.key_statistics[k].modifier_combinations :
            DenotedModifiers(m1) = DenotedModifiers(m2) => m1 = m2


\* C22: first_record_date is None exactly while no keystroke has been
\* recorded; the first update_key_statistics sets it to the date of that
\* call and no later step changes it; every update_key_statistics sets
\* last_record_date to the date of the call, and no other step changes it.
C22_RecordDates ==
    [][LET before == Document.total_statistics
           after == Document'.total_statistics
       IN  /\ IsNone(before.first_record_date) <=> before.total_keystrokes.val = 0
           /\ IF after.total_keystrokes # before.total_keystrokes
              THEN /\ after.first_record_date =
                         IF IsNone(before.first_record_date)
                         THEN Today(now) ELSE before.first_record_date
                   /\ after.last_record_date = Today(now)
              ELSE /\ after.first_record_date = before.first_record_date
                   /\ after.last_record_date = before.last_record_date]_vars

\* two keystrokes have been recorded, on different days
C22_Witness ==
    LET ts == Document.total_statistics
    IN  /\ ts.total_keystrokes.val = 2
        /\ ~IsNone(ts.first_record_date)
        /\ ts.first_record_date # ts.last_record_date


\* C23: the backup directory never holds more than KeepCount snapshots, and
\* once KeepCount + 3 snapshots have been written it holds exactly KeepCount.
C23_Retention ==
    /\ Cardinality(backups) <= KeepCount
    /\ \A t \in Threads :
          BackupsMade(t) >= KeepCount + 3 => Cardinality(backups) = KeepCount


\* C24: update_key_statistics(k, name, m, p) adds exactly 1 to total_keystrokes,
\* to the count of key k, to the count of k's modifier entry m and, when p is
\* not None, to that entry's preceded_by[p], each created at 0 if absent; every
\* other key entry, every other modifier entry of k, every other preceded_by
\* slot and key_sequences stay as they were.
C24_FrameEffect ==
    [][\A t \in Threads : \A e \in KeyEvents :
          UpdateKeyStatisticsCall(t, e[1], KeyNameOf(e[1]), e[2], e[3]) =>
          LET k == e[1]
              m == e[2]
              p == e[3]
              before == Document
              after == Document'
              ks == before.key_statistics
              ks2 == after.key_statistics
              mc == IF k \in DOMAIN ks
                    THEN ks[k].modifier_combinations ELSE EmptyDict
              mc2 == ks2[k].modifier_combinations
              pb == IF m \in DOMAIN mc THEN mc[m].preceded_by ELSE EmptyDict
              pb2 == mc2[m].preceded_by
              added == IF IsNone(p) THEN {} ELSE {p.val}
          IN  /\ after.total_statistics.total_keystrokes.val =
                     before.total_statistics.total_keystrokes.val + 1
              /\ DOMAIN ks2 = DOMAIN ks \cup {k}
              /\ ks2[k].count = (IF k \in DOMAIN ks THEN ks[k].count ELSE 0) + 1
              /\ \A k2 \in DOMAIN ks2 \ {k} : ks2[k2] = ks[k2]
              /\ DOMAIN mc2 = DOMAIN mc \cup {m}
              /\ mc2[m].count = (IF m \in DOMAIN mc THEN mc[m].count ELSE 0) + 1
              /\ \A m2 \in DOMAIN mc2 \ {m} : mc2[m2] = mc[m2]
              /\ DOMAIN pb2 = DOMAIN pb \cup added
              /\ \A q \in added :
                    pb2[q] = (IF q \in DOMAIN pb THEN pb[q] ELSE 0) + 1
              /\ \A q \in DOMAIN pb2 \ added : pb2[q] = pb[q]
              /\ after.key_sequences = before.key_sequences]_vars

\* key 65 has been recorded twice, under two combinations, the second time
\* after key 66: one modifier entry and one preceded_by slot were created
\* next to an entry that had to stay as it was
C24_Witness ==
    LET ks == Document.key_statistics
    IN  /\ "65" \in DOMAIN ks
        /\ ks["65"].count = 2
        /\ DOMAIN ks["65"].modifier_combinations = {"none", "ctrl"}
        /\ ks["65"].modifier_combinations["none"].preceded_by = EmptyDict
        /\ DOMAIN ks["65"].modifier_combinations["ctrl"].preceded_by = {"66"}


\* C25: update_sequence_statistics(codes, kind) adds exactly 1 to the entry of
\* that kind whose key is the codes joined by "_", created at 0 if absent, and
\* changes nothing else; at every moment the count of the entry of an ordered
\* list of codes and a kind is the number of calls made with that list and
\* kind, so that two different lists never share an entry.
C25_SequenceCounts ==
    /\ [](\A in \in SequenceCalls :
            LET sq == Document.key_sequences
                sequence_key == Join(in[1], "_")
            IN  (IF in[2] \in DOMAIN sq /\ sequence_key \in DOMAIN sq[in[2]]
                 THEN sq[in[2]][sequence_key].count ELSE 0)
                = CallsWith(hist.calls, in[1], in[2]))
    /\ [][\A t \in Threads : \A in \in SequenceCalls :
            UpdateSequenceStatisticsCall(t, in[1], in[2]) =>
            LET sq == Document.key_sequences
                sq2 == Document'.key_sequences
                kind == in[2]
                sequence_key == Join(in[1], "_")
                tbl == IF kind \in DOMAIN sq THEN sq[kind] ELSE EmptyDict
                tbl2 == sq2[kind]
            IN  /\ DOMAIN sq2 = DOMAIN sq \cup {kind}
                /\ \A other \in DOMAIN sq2 \ {kind} : sq2[other] = sq[other]
                /\ DOMAIN tbl2 = DOMAIN tbl \cup {sequence_key}
                /\ tbl2[sequence_key].count =
                      (IF sequence_key \in DOMAIN tbl
                       THEN tbl[sequence_key].count ELSE 0) + 1
                /\ \A other \in DOMAIN tbl2 \ {sequence_key} :
                      tbl2[other] = tbl[other]
                /\ Document'.key_statistics = Document.key_statistics
                /\ Document'.total_statistics = Document.total_statistics]_vars

\* Tab then F2 has been recorded twice and Win then Enter once: two lists
\* whose codes give the same digits, each with its own entry
C25_Witness ==
    /\ CallsWith(hist.calls, <<"9", "113">>, "bigrams") = 2
    /\ CallsWith(hist.calls, <<"91", "13">>, "bigrams") = 1
    /\ Document.key_sequences.bigrams["9_113"].count = 2
    /\ Document.key_sequences.bigrams["91_13"].count = 1


\* C26: get_top_keys_analysis(limit), for limit >= 0, returns
\* min(limit, number of keys) entries of distinct keys with their counts, in
\* non-increasing order of count; no key left out has a greater count than a
\* returned one; the percentage of an entry is count * 100 / total_keystrokes,
\* and 0 when the total is 0.
C26_TopKeys ==
    \A t \in Threads :
        ret[t].op = "get_top_keys_analysis" =>
        LET limit == ret[t].args[1]
            top == ret[t].value
            ks == Document.key_statistics
            total == Document.total_statistics.total_keystrokes.val
            n == Cardinality(DOMAIN ks)
            returned == {top[i].key_code : i \in 1..Len(top)}
        IN  /\ Len(top) = IF limit < n THEN limit ELSE n
            /\ Cardinality(returned) = Len(top)
            /\ \A i \in 1..Len(top) :
                  /\ top[i].key_code \in DOMAIN ks
                  /\ top[i].count = ks[top[i].key_code].count
                  /\ top[i].key_name = ks[top[i].key_code].key_name
                  /\ IF total = 0 THEN top[i].percentage.num = 0
                     ELSE top[i].percentage.num * total =
                              top[i].count * 100 * top[i].percentage.den
                  /\ top[i].percentage.den # 0
            /\ \A i, j \in 1..Len(top) : i < j => top[i].count >= top[j].count
            /\ \A k \in DOMAIN ks \ returned :
                  \A i \in 1..Len(top) : ks[k].count <= top[i].count

\* A was pressed three times and B once (A, B, A, A); the two top keys are A
\* with 3 presses, 75 %, then B with 1 press, 25 %
C26_Witness ==
    \E t \in Threads :
        /\ ret[t].op = "get_top_keys_analysis"
        /\ ret[t].args = <<2>>
        /\ DOMAIN Document.key_statistics = {"65", "66"}
        /\ Document.total_statistics.total_keystrokes.val = 4
        /\ Len(ret[t].value) = 2
        /\ ret[t].value[1].key_name = "A" /\ ret[t].value[1].count = 3
        /\ ret[t].value[1].percentage.num = 75 * ret[t].value[1].percentage.den
        /\ ret[t].value[2].key_name = "B" /\ ret[t].value[2].count = 1
        /\ ret[t].value[2].percentage.num = 25 * ret[t].value[2].percentage.den


\* C27: on the empty document get_basic_statistics returns total_keystrokes 0,
\* 0 recording days and an average per day of 0, and calculate_basic_stats
\* returns total_keystrokes 0 and the period that means nothing recorded; on
\* no document does get_basic_statistics raise ZeroDivisionError.
C27_BasicStatistics ==
    \A t \in Threads :
        /\ ret[t].op = "get_basic_statistics" =>
              /\ ret[t].ok
              /\ ret[t].failed # "ZeroDivisionError"
              /\ Document = EmptyDocument =>
                    /\ ret[t].value.total_keystrokes = 0
                    /\ ret[t].value.recording_days = 0
                    /\ ret[t].value.average_keystrokes_per_day.num = 0
        /\ ret[t].op = "calculate_basic_stats" /\ Document = EmptyDocument =>
              /\ ret[t].value.total_keystrokes = 0
              /\ ret[t].value.recording_period = NoRecord

\* get_basic_statistics has answered on the empty document
C27_Witness ==
    \E t \in Threads :
        /\ ret[t].op = "get_basic_statistics"
        /\ Document = EmptyDocument
        /\ ret[t].value.recording_days = 0


\* the base modifiers a combination contains, the Windows key under the name
\* the analysis gives it
BaseModifiersIn(modifier) ==
    {IF Split(modifier)[i] = "win" THEN "super" ELSE Split(modifier)[i]
        : i \in 1..Len(Split(modifier))} \ {"none"}

\* C28: analyze_modifier_usage gives, for each base modifier b, the sum of the
\* counts of all modifier entries of all keys whose combination contains b,
\* alone or in a compound.
C28_ModifierUsage ==
    \A t \in Threads :
        ret[t].op = "analyze_modifier_usage" =>
        LET ks == Document.key_statistics
        IN  \A b \in {"ctrl", "shift", "alt", "super"} :
                ret[t].value[b] =
                    SumOf([e \in ModifierEntries(ks) |->
                              IF b \in BaseModifiersIn(e[2])
                              THEN ks[e[1]].modifier_combinations[e[2]].count
                              ELSE 0])


\* how often key p was recorded as the key before key k, under any
\* combination of modifiers
TimesBefore(ks, k, p) ==
    IF k \notin DOMAIN ks THEN 0
    ELSE SumOf([m \in DOMAIN ks[k].modifier_combinations |->
                   IF p \in DOMAIN ks[k].modifier_combinations[m].preceded_by
                   THEN ks[k].modifier_combinations[m].preceded_by[p] ELSE 0])

Predecessors(ks, k) == {p \in DOMAIN ks : TimesBefore(ks, k, p) > 0}

\* C29: _get_top_predecessors(k, top_n) returns min(top_n, number of
\* predecessors of k) entries, in non-increasing order of count, each a
\* predecessor of k with the number of times it was recorded before k.
C29_Predecessors ==
    \A t \in Threads :
        ret[t].op = "get_top_predecessors" =>
        LET k == ret[t].args[1]
            top_n == ret[t].args[2]
            top == ret[t].value
            ks == Document.key_statistics
            n == Cardinality(Predecessors(ks, k))
        IN  /\ Len(top) = IF top_n < n THEN top_n ELSE n
            /\ \A i, j \in 1..Len(top) : i < j => top[i].count >= top[j].count
            /\ \A i \in 1..Len(top) :
                  \E p \in Predecessors(ks, k) :
                      /\ top[i].key_name = ks[p].key_name
                      /\ top[i].count = TimesBefore(ks, k, p)


\* the counts with which a key of this name appears in the answer of a query
CountsOf(answer, key_name) ==
    {answer[i].count : i \in {j \in 1..Len(answer) : answer[j].key_name = key_name}}

\* _get_top_predecessors(y) with a limit that cuts nothing off
AllPredecessors(ks, y) ==
    GetTopPredecessors(y, ks, Cardinality(DOMAIN ks),
                       CHOOSE o \in Orders(DOMAIN PrecededByNone(ks[y])) : TRUE)

\* C30: with a limit that cuts nothing off, key Y appears among the
\* successors of key X with count c exactly when X appears among the
\* predecessors of Y with count c, for all keys X and Y of the document, also
\* when two keys have the same display name.
C30_Duality ==
    \A t \in Threads :
        ret[t].op = "get_top_successors"
            /\ ret[t].args[2] >= Cardinality(DOMAIN Document.key_statistics) =>
        LET x == ret[t].args[1]
            ks == Document.key_statistics
        IN  \A y \in DOMAIN ks :
                CountsOf(ret[t].value, ks[y].key_name)
                    = CountsOf(AllPredecessors(ks, y), GetKeyNameByCode(x, ks))


\* C36: the key_name of a key entry is the name given by the call that
\* created the entry: a later update_key_statistics for the same key code,
\* whatever name it gives, adds 1 to the count and leaves key_name as it was,
\* and no step changes the key_name of an existing entry.
C36_NameFixed ==
    [][LET ks == Document.key_statistics
           ks2 == Document'.key_statistics
       IN  /\ \A k \in DOMAIN ks :
                 k \in DOMAIN ks2 /\ ks2[k].key_name = ks[k].key_name
           /\ \A t \in Threads : \A e \in WinKeyEvents :
                 UpdateKeyStatisticsCall(t, e[1], e[2], e[3], e[4]) =>
                     /\ ks2[e[1]].key_name =
                            IF e[1] \in DOMAIN ks THEN ks[e[1]].key_name ELSE e[2]
                     /\ ks2[e[1]].count =
                            (IF e[1] \in DOMAIN ks THEN ks[e[1]].count ELSE 0) + 1]_vars

\* the entry of key 91 was created under the name Win and then counted a
\* press that came with the name Left Win (the one after key 65)
C36_Witness ==
    LET ks == Document.key_statistics
    IN  /\ "91" \in DOMAIN ks
        /\ ks["91"].key_name = "Win"
        /\ ks["91"].count = 2
        /\ ks["91"].modifier_combinations["win"].preceded_by = [p \in {"65"} |-> 1]


\* C37: in every document built from the empty one by update_key_statistics
\* calls, the count of each key entry is the sum of the counts of its
\* modifier_combinations entries, and in each modifier entry the preceded_by
\* values sum to at most the entry's count.
C37_CountsAddUp ==
    \A k \in DOMAIN Document.key_statistics :
        LET entry == Document.key_statistics[k]
            mc == entry.modifier_combinations
        IN  /\ entry.count = SumOf([m \in DOMAIN mc |-> mc[m].count])
            /\ \A m \in DOMAIN mc : SumOf(mc[m].preceded_by) <= mc[m].count

\* one key was pressed under two modifier combinations, once as the first key
\* of the session and once after another key
C37_Witness ==
    \E k \in DOMAIN Document.key_statistics :
        LET mc == Document.key_statistics[k].modifier_combinations
        IN  /\ Document.key_statistics[k].count = 2
            /\ \E m1, m2 \in DOMAIN mc :
                  /\ m1 # m2
                  /\ mc[m1].count = 1 /\ SumOf(mc[m1].preceded_by) = 0
                  /\ mc[m2].count = 1 /\ SumOf(mc[m2].preceded_by) = 1


C34_SnapshotPerSave ==
    \A t \in Threads :
        /\ pc[t] = "idle"
        /\ ret[t].op = "save_data"
        /\ ret[t].ok
        /\ hist.env = 0
        /\ hist.events <= KeepCount
        => Cardinality(backups) >= hist.events


\* C35: in save_data(create_backup=True) the snapshot is written in the first
\* step of the call, before the temporary file is written and the primary
\* file replaced: the step that writes a snapshot leaves the primary file as
\* it is and, unless _create_backup failed, stores its content; the steps that replace the primary file
\* leave the snapshots alone; until the replacement the snapshot equals the
\* primary file, and when the call returns True the snapshot still holds that
\* earlier content while the primary file holds the document just written.
C35_SnapshotBeforeReplace ==
    /\ [][backups' # backups =>
            \E t \in Threads :
               /\ pc[t] = "idle" /\ pc'[t] = "save_open"
               /\ \A u \in Threads : pc[u] \notin {"save_move", "save_copy", "save_copy_write"}
               /\ Exists(primary)
               /\ UNCHANGED <<primary, temp>>
               /\ local'[t].failed = NoFailure =>
                     \E b \in backups' : b.name = now' /\ b.content = Gzip(primary)]_vars
    /\ [][\A t \in Threads :
            pc[t] \in {"save_move", "save_copy", "save_copy_write"} => UNCHANGED backups]_vars
    /\ [](\A t \in Threads :
            /\ pc[t] \in {"save_open", "save_move"}
            /\ local[t].create_backup
            /\ local[t].failed = NoFailure
            /\ Exists(primary)
            => \E b \in backups : b.name = now /\ b.content = Gzip(primary))
    /\ [][\A t \in Threads :
            /\ pc[t] = "save_move" /\ pc'[t] = "idle"
            /\ local[t].create_backup
            /\ local[t].failed = NoFailure
            /\ Exists(primary)
            => /\ ret'[t].ok
               /\ primary' = Text(JsonDump(Document))
               /\ \E b \in backups' : b.name = now /\ b.content = Gzip(primary)]_vars

\* a save with a backup has returned True: the snapshot holds the document
\* saved before, the primary file the document just written, and they differ
C35_Witness ==
    \E t \in Threads :
        /\ pc[t] = "idle"
        /\ ret[t].op = "save_data"
        /\ ret[t].ok
        /\ primary = Text(JsonDump(Document))
        /\ \E b \in backups :
              /\ b.name = now
              /\ Decompresses(b.content)
              /\ Parses(Gunzip(b.content))
              /\ b.content # Gzip(primary)


\* C39: when _create_backup fails inside save_data(create_backup=True) the
\* save goes on: the step of the failure leaves the document, the primary
\* file and every snapshot that existed before as they were, and the save
\* then replaces the primary file with the document and returns True unless
\* one of its own steps fails.
C39_BackupFailureSwallowed ==
    /\ [][\A t \in Threads :
            /\ pc[t] = "idle" /\ pc'[t] = "save_open"
            /\ local'[t].failed = "backup"
            => /\ UNCHANGED <<MemVars, primary, temp>>
               /\ \A b \in backups : b \in backups']_vars
    /\ [][\A t \in Threads :
            /\ pc[t] = "save_move" /\ pc'[t] = "idle"
            /\ local[t].failed = "backup"
            => /\ ret'[t].ok
               /\ primary' = Text(JsonDump(Document))
               /\ UNCHANGED <<MemVars, backups>>]_vars


\* C33: when save_data has returned to a force_save, force_save returns what
\* save_data returned, and when save_data returned True to a force_save or to
\* the shutdown save, the unsaved-event counter is zero afterwards.
C33_ForceSave ==
    [][\A t \in SchedThreads :
          /\ at[t].in = "save_data"
          /\ pc[t] = "idle"
          /\ at'[t].in # "save_data"
          /\ at[t].save_type \in {"manual", "shutdown"}
          => /\ at[t].save_type = "manual" =>
                   ret'[t].op = "force_save" /\ ret'[t].ok = ret[t].ok
             /\ ret[t].ok => keystroke_count_since_save' = 0]_vars


\* C31: the handler run that recorded a key press goes on, with auto-save
\* enabled, to set previous_key to the key code of that press and to call
\* on_keystroke once; and between two handler runs previous_key is the code
\* of the latest recorded press.
C31_RecordThenNotify ==
    /\ [][\A t \in SchedThreads :
            at[t].in = "update_sequence_analysis" /\ at'[t].in # at[t].in
            => /\ logger_previous_key' = PyStr(at[t].key_code)
               /\ at'[t].in = "on_keystroke"]_vars
    /\ [](at[CaptureThread].in = "idle" /\ hist.events > 0
            => ~IsNone(logger_previous_key))


\* the key presses in the file of the last save that succeeded
SavedEvents ==
    IF hist.saved.valid THEN TotalKeystrokes(hist.saved.doc).val ELSE 0

\* C32: while the SaveManager runs, no save has failed and the capture thread
\* is between two key presses (each recorded and then notified), the number
\* of recorded key presses that the last successfully saved file lacks is at
\* most keystroke_count_since_save, whatever the timer callbacks have done in
\* between.
C32_UnsavedWithinCounter ==
    /\ is_running
    /\ hist.env = 0
    /\ at[CaptureThread].in = "idle"
    /\ hist.saved.valid \/ ~Exists(primary)
    => hist.events - SavedEvents <= keystroke_count_since_save

=============================================================================
